---- MODULE Spec2Model ----
(***************************************************************************)
(* The solar-system scene: the ephemeris (ephemeris: getPlanetPosition,    *)
(* getAllPositions), the camera transition controller (cameraManager:      *)
(* smoothCameraTo, updateCamera, cancelTransition) and the frame driver    *)
(* that calls both (main: animate, applyEphemeris, focusBodyByName,        *)
(* resetCamera; ui/controls: the speed buttons and the info panel).        *)
(*                                                                         *)
(* Spec is the controller under any caller; SpecDriver is the controller   *)
(* as main drives it, the anchors moving as the ephemeris says.            *)
(*                                                                         *)
(* Numbers.  Scene coordinates are integers.  A product with a fraction    *)
(* (the eased progress, the 0.08 damping, 0.3 * zoomDist, a normalised     *)
(* direction) is computed exactly as a rational and then rounded to an     *)
(* integer, where the program rounds to the nearest double.  Wall-clock    *)
(* time is in milliseconds.  The ephemeris is in fixed point, with the     *)
(* scales stated where it begins.                                          *)
(*                                                                         *)
(* controls.update() is OrbitControls.update of three.js, with the         *)
(* settings init() gives the controls: it turns the camera about the       *)
(* look-target by the damped part of the rotation a drag has left pending  *)
(* and keeps the camera between minDistance and maxDistance from the       *)
(* look-target, and it moves the look-target and the camera by the damped  *)
(* part of the shift a pan has left pending (enablePan).  Of the user's    *)
(* input the model has a drag about the Y axis and a drag downwards, in    *)
(* Spec, and a drag with the right button that pans sideways, in           *)
(* SpecPan.  A turn of the wheel is applied by the update() of its handler *)
(* and leaves nothing pending.  clock is a THREE.Clock of three.js that    *)
(* starts with its first getDelta(), which returns 0.                      *)
(*                                                                         *)
(* The page and the environment.  index.html is not among the sources: the *)
(* page may or may not have an element #sim-time, and the time zone that   *)
(* toLocaleDateString formats in is the environment's.  SpecClock, where   *)
(* the text of the clock is read, starts in every zone of TimeZones, with  *)
(* and without the element; the other specifications start on a page with  *)
(* the element in the zone UTC, the two deciding nothing but that text.    *)
(*                                                                         *)
(* The handlers the page wires are the actions of SpecDriver, SpecClock    *)
(* and SpecPointer.  The functions ui/controls exports beside them         *)
(* (setSpeedMultiplier, setSpeedMode, showInfoPanel, hideInfoPanel), which *)
(* nothing in the sources calls from outside a handler, are called         *)
(* directly in SpecExports, and startAmbient, which soundManager exports,  *)
(* is called directly in SpecPointer.                                      *)
(*                                                                         *)
(* Of animate() the model keeps what the simulated date, the orbit pivots  *)
(* and the camera depend on; the axial spins, the glow, the belt, the hint *)
(* rings and the rendering write nothing that those read.                  *)
(***************************************************************************)
EXTENDS Integers, FiniteSets, Sequences, TLC

\* ------------------------------------------------------------------ bounds
\* performance.now() is not advanced past MaxTime.
MaxTime == 2000
\* At most MaxStarts calls of smoothCameraTo are made in one run.
MaxStarts == 2

\* ------------------------------------------------------------------ values
Null == [null |-> TRUE]
NoMesh == "null"

Vec(a, b, c) == [x |-> a, y |-> b, z |-> c]

\* The planets built from PLANETS that the ephemeris places, named by data.name.
Planets == {"Earth", "Mars"}

\* The social-link planets built from PLANETS (data.isSocialLink, data.url).
SocialLinks == {"GitHub"}

\* planetObjects: one object, with its orbit pivot, per entry of PLANETS.
planetObjects == Planets \cup SocialLinks

\* The THREE.Mesh objects a transition can follow: sunObj.mesh and p.mesh.
Meshes == {"Sun"} \cup Planets

\* The mesh the callers below pass to the controller; the Sun's mesh, which
\* does not move, is reached through focusBodyByName.
MeshOrNull == {"Earth", NoMesh}

\* The meshes that orbit; the Sun's mesh stays at the origin.
Orbiting == {"Earth"}
\* World positions the scene graph reports for an orbiting mesh.
AnchorPositions == {Vec(40, 0, 0), Vec(-24, 2, 32)}

\* Arguments smoothCameraTo is called with.
StaticTargets == {Vec(0, 0, 0), Vec(40, 0, 0)}
ZoomDists == {0, 30}

\* The steps by which the wall clock advances between calls.
FrameSteps == {400, 800}

DEFAULT_CAM_POS == Vec(15, 20, 30)
DEFAULT_CAM_TARGET == Vec(0, 0, 0)

ExplicitEndPositions == {DEFAULT_CAM_POS}

\* The rotations, in 1/100 degree, a drag of the user asks of the controls: a
\* quarter turn about the Y axis, and three quarters of a turn downwards, which
\* the controls stop at the pole.
DragAngles == {[theta |-> 9000, phi |-> 0], [theta |-> 0, phi |-> 27000]}

\* The values of the data-speed buttons clicked (Pause, 3x); 1x is the value
\* the multiplier starts with and the real-time button gives.
SpeedValues == {0, 3}

\* The names focusBodyByName is called with; "Ceres" is no body of the scene.
FocusNames == {"Abhay Sharma", "Earth", "Ceres", "GitHub"}

\* The time zones of the environment: the process's zone, which
\* toLocaleDateString formats in.
TimeZones == {"UTC", "America/Los_Angeles", "Pacific/Auckland"}

\* #info-panel before showInfoPanel has written it: no #ip-close-btn.
NoButton == "absent"

VARIABLES
    _transition,     \* the module-level transition record, or Null
    cameraPosition,  \* camera.position
    controlsTarget,  \* controls.target
    sphericalDelta,  \* controls: the rotation a drag has left pending
    panOffset,       \* controls: the shift of the look-target a drag has left pending
    now,             \* performance.now()
    meshPos,         \* mesh.getWorldPosition(), per mesh
    call,            \* history: the latest controller call and what it returned
    starts,          \* history: number of smoothCameraTo calls made
    simDate,         \* main: simDate
    speedMultiplier, \* ui/controls: speedMultiplier
    speedMode,       \* ui/controls: speedMode
    lockedTarget,    \* main: lockedTarget
    rotationY,       \* p.orbitPivot.rotation.y, per planet
    panelVisible,    \* whether #info-panel has the class visible
    closeButton,     \* #ip-close-btn: absent, or the unlockFn its listener holds
    clockRunning,    \* main: clock.running
    timeZone,        \* the environment: the time zone dates are formatted in
    hasSimTime,      \* the page: whether it has an element #sim-time
    elementTables,   \* ephemeris: the arrays of ELEMENTS and PLUTO_ELEMENTS
    ephCall,         \* history: the latest ephemeris call and what it returned
    firstResult,     \* history: what the first call with a watched argument returned
    down,            \* initDragGuard: down, where the mouse button went down
    _wasDragging,    \* renderer.domElement._wasDragging
    navHintVisible,  \* main: navHintVisible
    ambientPlaying,  \* soundManager: ambientPlaying
    muted,           \* soundManager: muted
    gesture          \* history: where the button came up since it last went down

\* The page and the environment, which no operation changes.
envVars == <<timeZone, hasSimTime>>

driverVars == <<simDate, speedMultiplier, speedMode, lockedTarget, rotationY, panelVisible,
                closeButton, clockRunning, timeZone, hasSimTime>>

ephVars == <<elementTables, ephCall, firstResult>>

pointerVars == <<down, _wasDragging, navHintVisible, ambientPlaying, muted, gesture>>

vars == <<_transition, cameraPosition, controlsTarget, sphericalDelta, panOffset, now, meshPos,
          call, starts,
          simDate, speedMultiplier, speedMode, lockedTarget, rotationY, panelVisible,
          closeButton, clockRunning, timeZone, hasSimTime,
          elementTables, ephCall, firstResult,
          down, _wasDragging, navHintVisible, ambientPlaying, muted, gesture>>

\* ------------------------------------------------------------ vector maths
Abs(n) == IF n < 0 THEN -n ELSE n
Sign(n) == IF n < 0 THEN -1 ELSE IF n > 0 THEN 1 ELSE 0
Max(a, b) == IF a > b THEN a ELSE b
Min(a, b) == IF a < b THEN a ELSE b

RECURSIVE GCD(_, _)
GCD(a, b) == IF b = 0 THEN a ELSE GCD(b, a % b)

\* n / d rounded to the nearest integer, halves away from zero.
RoundDiv(n, d) == Sign(n) * ((2 * Abs(n) + d) \div (2 * d))

\* Vector3.subVectors
subVectors(a, b) == Vec(a.x - b.x, a.y - b.y, a.z - b.z)

\* Vector3.lengthSq
lengthSq(v) == v.x * v.x + v.y * v.y + v.z * v.z

\* One component of normalize(v) * s, that is c * s / sqrt(lsq), rounded to the
\* nearest integer; normalize() divides by length() || 1, so a zero vector
\* stays zero.  s >= 0.
ScaledComponent(c, lsq, s) ==
    IF lsq = 0 THEN 0
    ELSE Sign(c) * (CHOOSE k \in 0..s :
                      /\ k = 0 \/ (2 * k - 1) * (2 * k - 1) * lsq <= 4 * c * c * s * s
                      /\ (2 * k + 1) * (2 * k + 1) * lsq > 4 * c * c * s * s)

\* Vector3.normalize().multiplyScalar(s)
normalizeTimes(v, s) ==
    Vec(ScaledComponent(v.x, lengthSq(v), s),
        ScaledComponent(v.y, lengthSq(v), s),
        ScaledComponent(v.z, lengthSq(v), s))

\* Vector3.add
add(a, b) == Vec(a.x + b.x, a.y + b.y, a.z + b.z)

\* A fraction num/den, den > 0.
Frac(n, d) == [num |-> n, den |-> d]

\* Vector3.lerpVectors(v1, v2, alpha): v1 + (v2 - v1) * alpha.
lerpVectors(v1, v2, alpha) ==
    Vec(v1.x + RoundDiv((v2.x - v1.x) * alpha.num, alpha.den),
        v1.y + RoundDiv((v2.y - v1.y) * alpha.num, alpha.den),
        v1.z + RoundDiv((v2.z - v1.z) * alpha.num, alpha.den))

\* ------------------------------------------------------ ephemeris (module)
\* Fixed point.  A date is [day, ms]: whole days since J2000.0 (2000-01-01
\* 12:00 UTC) and milliseconds into that day, so that date.getTime() is
\* 946728000000 + 86400000 * day + ms.  T is in 10^-8 Julian century.  An
\* angle, in degrees or in radians in the program, is held in 1/100 degree
\* (180 degrees, or pi radians, is 18000).  Sines and cosines are scaled by
\* 10^4.  Once the elements are extrapolated the semi-major axis is in 10^-5 AU
\* and the eccentricity in 10^-4; the distance returned is in 10^-2 AU.
Date(d, m) == [day |-> d, ms |-> m]

\* new Date(date.getTime() + n), n in milliseconds.
addMilliseconds(date, n) ==
    LET total == date.ms + n
    IN  Date(date.day + total \div 86400000, total % 86400000)

\* Math.sin(x * DEG) for whole degrees 0..90, scaled by 10^4.
SinTable ==
    << 0, 175, 349, 523, 698, 872, 1045, 1219, 1392, 1564,
       1736, 1908, 2079, 2250, 2419, 2588, 2756, 2924, 3090, 3256,
       3420, 3584, 3746, 3907, 4067, 4226, 4384, 4540, 4695, 4848,
       5000, 5150, 5299, 5446, 5592, 5736, 5878, 6018, 6157, 6293,
       6428, 6561, 6691, 6820, 6947, 7071, 7193, 7314, 7431, 7547,
       7660, 7771, 7880, 7986, 8090, 8192, 8290, 8387, 8480, 8572,
       8660, 8746, 8829, 8910, 8988, 9063, 9135, 9205, 9272, 9336,
       9397, 9455, 9511, 9563, 9613, 9659, 9703, 9744, 9781, 9816,
       9848, 9877, 9903, 9925, 9945, 9962, 9976, 9986, 9994, 9998,
       10000 >>

\* The sine of an angle in 0..9000, interpolated between whole degrees.
SinQuadrant(a) ==
    LET d == a \div 100
        f == a % 100
    IN  IF f = 0 THEN SinTable[d + 1]
        ELSE SinTable[d + 1] + RoundDiv((SinTable[d + 2] - SinTable[d + 1]) * f, 100)

\* Math.sin
Sin(a) ==
    LET r == a % 36000
    IN  IF r <= 9000 THEN SinQuadrant(r)
        ELSE IF r <= 18000 THEN SinQuadrant(18000 - r)
        ELSE IF r <= 27000 THEN -SinQuadrant(r - 18000)
        ELSE -SinQuadrant(36000 - r)

\* Math.cos
Cos(a) == Sin(a + 9000)

\* The product of a number and a factor scaled by 10^4: a * b / 10^4, rounded.
Mul(a, b) ==
    LET m == Abs(a)
        f == Abs(b)
    IN  Sign(a) * Sign(b) * ((m \div 10000) * f + RoundDiv((m % 10000) * f, 10000))

\* Math.sqrt, rounded down: the largest r in lo..hi with r * r <= n.
RECURSIVE SqrtBetween(_, _, _)
SqrtBetween(n, lo, hi) ==
    IF lo >= hi THEN lo
    ELSE LET mid == (lo + hi + 1) \div 2
         IN  IF mid * mid <= n THEN SqrtBetween(n, mid, hi)
             ELSE SqrtBetween(n, lo, mid - 1)

Sqrt(n) == SqrtBetween(n, 0, 46340)

\* Math.atan(k / 64) for k = 0..64, in 10^-5 degree.
AtanTable ==
    <<       0,   89517,  178991,  268378,  357633,  446716,  535583,  624191,
        712502,  800473,  888066,  975242, 1061966, 1148199, 1233909, 1319061,
       1403624, 1487568, 1570864, 1653484, 1735402, 1816596, 1897041, 1976717,
       2055605, 2133686, 2210945, 2287367, 2362938, 2437647, 2511483, 2584439,
       2656505, 2727676, 2797947, 2867315, 2935775, 3003328, 3069972, 3135709,
       3200538, 3264464, 3327489, 3389617, 3450852, 3511201, 3570669, 3629263,
       3686990, 3743857, 3799873, 3855047, 3909386, 3962901, 4015600, 4067494,
       4118593, 4168906, 4218444, 4267218, 4315239, 4362517, 4409062, 4454886,
       4500000 >>

\* atan(n / d) in 10^-5 degree for 0 <= n and 128 n <= d, where the angle is
\* its tangent: n / d radians, 57.29578 degrees each (5729578 is split to keep
\* the products within 32 bits).
AtanSmall(n, d) ==
    1000 * ((n * 5729) \div d) + (1000 * ((n * 5729) % d) + 578 * n + d \div 2) \div d

\* atan(k / 64) + atan(N / D), to the nearest 1/100 degree; s scales N and D
\* down to keep the products within 32 bits.
AtanNear(k, N, D, s) ==
    RoundDiv(AtanTable[k + 1]
             + (IF N < 0 THEN -1 ELSE 1) * AtanSmall(Abs(RoundDiv(N, s)), D \div s), 1000)

\* atan(y / x) about the multiple k / 64 nearest to y / x: it is
\* atan(k / 64) + atan(u) for u = (64 y - k x) / (64 x + k y), |u| <= 1/128.
AtanAbout(y, x, k) ==
    AtanNear(k, 64 * y - k * x, 64 * x + k * y, (64 * x + k * y) \div 2000000 + 1)

\* atan(y / x) for 0 <= y <= x <= 10^7 and x > 0; k is 64 y / x rounded.
AtanScaled(y, x) == AtanAbout(y, x, (128 * y + x) \div (2 * x))

\* The angle in 0..4500 whose tangent is y / x, for 0 <= y <= x and x > 0, to
\* the nearest 1/100 degree (within 0.005 of a hundredth of the exact angle
\* before it is rounded).  Operands above 10^7 are scaled down first.
AtanOctant(y, x) == AtanScaled(y \div (x \div 10000000 + 1), x \div (x \div 10000000 + 1))

\* An atan2 whose value is an angle of a full turn, from 0 up to 2 pi.
Atan2_FullTurn(y, x) ==
    LET ax == Abs(x)
        ay == Abs(y)
        first == IF ax = 0 /\ ay = 0 THEN 0
                 ELSE IF ay <= ax THEN AtanOctant(ay, ax)
                 ELSE 9000 - AtanOctant(ax, ay)
        upper == IF x < 0 THEN 18000 - first ELSE first
    IN  IF y < 0 THEN 36000 - upper ELSE upper

\* Math.atan2(y, x), to the nearest 1/100 degree: a value of [-pi, pi].  For
\* y < 0 and x < 0 it is minus the angle of (-y, x), so that -18000 stands for
\* every angle from -pi to 0.005 degree above it.  The operands are integers,
\* which have no -0: Math.atan2(-0, x) for x < 0, which is -pi, is the value
\* for no operands of the model.
Atan2(y, x) ==
    LET ax == Abs(x)
        ay == Abs(y)
        first == IF ax = 0 /\ ay = 0 THEN 0
                 ELSE IF ay <= ax THEN AtanOctant(ay, ax)
                 ELSE 9000 - AtanOctant(ax, ay)
        upper == IF x < 0 THEN 18000 - first ELSE first
    IN  IF y < 0 THEN -upper ELSE upper

\* JPL Table 1, the rows of ELEMENTS:
\* [a0, aRate, e0, eRate, I0, IRate, L0, LRate, wBar0, wBarRate, Omega0, OmegaRate]
\* a in 10^-7 AU, e in 10^-8, I, wBar and Omega in 10^-5 degree, L in 10^-2
\* degree; the rates are per Julian century.
ELEMENTS ==
    [
     Mercury  |-> <<3870993, 4, 20563593, 1906, 700498, -595, 25225, 14947267, 7745780, 16048, 4833077, -12534>>,
     Venus    |-> <<7233357, 39, 677672, -4107, 339468, -79, 18198, 5851782, 13160247, 268, 7667984, -27769>>,
     Earth    |-> <<10000026, 56, 1671123, -4392, -2, -1295, 10046, 3599937, 10293768, 32327, 0, 0>>,
     Mars     |-> <<15237103, 185, 9339410, 7882, 184969, -813, -455, 1914030, -2394363, 44441, 4955954, -29257>>,
     Jupiter  |-> <<52028870, -1161, 4838624, -13253, 130440, -184, 3440, 303475, 1472848, 21253, 10047391, 20469>>,
     Saturn   |-> <<95366759, -12506, 5386179, -50991, 248599, 194, 4995, 122249, 9259888, -41897, 11366242, -28868>>,
     Uranus   |-> <<191891646, -19618, 4725744, -4397, 77264, -243, 31324, 42848, 17095428, 40805, 7401693, 4241>>,
     Neptune  |-> <<300699228, 2629, 859048, 5105, 177004, 35, -5512, 21846, 4496476, -32241, 13178423, -509>>
    ]

PLUTO_ELEMENTS ==
    <<394821168, -3160, 24882730, 5170, 1714001, 5, 23893, 14521, 22406892, -4063, 11030394, -1183>>

\* Object.keys(ELEMENTS)
ElementNames == DOMAIN ELEMENTS

\* A dateToCenturies that takes the epoch to be 2000-01-01 00:00, JD 2451544.5.
dateToCenturies_MidnightEpoch(date) ==
    LET k == date.day \div 1461
        r == date.day % 1461
        q1 == (r * 40000) \div 1461
        r1 == (r * 40000) % 1461
        q2 == (r1 * 100) \div 1461
        r2 == (r1 * 100) % 1461
    IN  k * 4000000 + q1 * 100 + q2
        + RoundDiv(r2 * 216 + (date.ms + 43200000) * 10, 315576)

\* dateToCenturies: T = (JD - 2451545.0) / 36525.0.  1461 days are 4000000
\* and 315576 ms are 10 of 10^-8 century.
dateToCenturies(date) ==
    LET k == date.day \div 1461
        r == date.day % 1461
        q1 == (r * 40000) \div 1461
        r1 == (r * 40000) % 1461
        q2 == (r1 * 100) \div 1461
        r2 == (r1 * 100) % 1461
    IN  k * 4000000 + q1 * 100 + q2 + RoundDiv(r2 * 216 + date.ms * 10, 315576)

\* JavaScript's a % n: the remainder has the sign of the dividend.
Remainder(a, n) == Sign(a) * (Abs(a) % n)

\* A normalizeDeg without its second fold (line 48).
normalizeDeg_OneSided(deg) ==
    LET d0 == Remainder(deg, 36000)
    IN  IF d0 > 18000 THEN d0 - 36000 ELSE d0

\* normalizeDeg
normalizeDeg(deg) ==
    LET d0 == Remainder(deg, 36000)
        d1 == IF d0 > 18000 THEN d0 - 36000 ELSE d0
    IN  IF d1 < -18000 THEN d1 + 36000 ELSE d1

\* rate * T for T in 10^-8 century, rounded to the unit of rate.
RateTimesT(rate, T) ==
    LET r == Abs(rate)
        t == Abs(T)
        rh == r \div 10000
        rl == r % 10000
        th == t \div 10000
        tl == t % 10000
        mid == rh * tl + rl * th
        low == (mid % 10000) * 10000 + rl * tl
    IN  Sign(rate) * Sign(T) * (rh * th + mid \div 10000 + RoundDiv(low, 100000000))

\* Elements that take the rate for the J2000 value: el[2k + 1] + el[2k] * T.
elementsAt_RatesFirst(el, T) ==
    [a |-> el[2] + RateTimesT(el[1], T),
     e |-> el[4] + RateTimesT(el[3], T),
     I |-> el[6] + RateTimesT(el[5], T),
     L |-> el[8] + RateTimesT(el[7], T),
     wBar |-> el[10] + RateTimesT(el[9], T),
     Omega |-> el[12] + RateTimesT(el[11], T)]

\* The six elements at time T: el[2k] + el[2k + 1] * T.
elementsAt(el, T) ==
    [a |-> el[1] + RateTimesT(el[2], T),
     e |-> el[3] + RateTimesT(el[4], T),
     I |-> el[5] + RateTimesT(el[6], T),
     L |-> el[7] + RateTimesT(el[8], T),
     wBar |-> el[9] + RateTimesT(el[10], T),
     Omega |-> el[11] + RateTimesT(el[12], T)]

\* ------------------------------------------------ the numbers of solveKepler
\* solveKepler stops on a correction below 1e-7 degree, so its numbers are held
\* in units of 10^-12: a number is hi * 10^8 + lo units with 0 <= lo < 10^8.
\* An angle of 1 degree is 10^12 units, as is an eccentricity, a sine or a
\* cosine of 1.  NaN is the one value with lo below 0.
Fix(h, l) == [hi |-> h + l \div 100000000, lo |-> l % 100000000]

\* NaN: what arithmetic on undefined gives.
NaN == [hi |-> 0, lo |-> -1]
IsNaN(a) == a.lo < 0

Zero == Fix(0, 0)
One == Fix(10000, 0)
Two == Fix(20000, 0)

\* a < b, false when either is NaN.
Less(a, b) ==
    /\ a.lo >= 0
    /\ b.lo >= 0
    /\ \/ a.hi < b.hi
       \/ a.hi = b.hi /\ a.lo < b.lo

Plus(a, b) == IF a.lo < 0 \/ b.lo < 0 THEN NaN ELSE Fix(a.hi + b.hi, a.lo + b.lo)
Minus(a, b) == IF a.lo < 0 \/ b.lo < 0 THEN NaN ELSE Fix(a.hi - b.hi, a.lo - b.lo)
Negated(a) == IF a.lo < 0 THEN NaN ELSE Fix(-a.hi, -a.lo)

\* Math.abs
Magnitude(a) == IF a.hi < 0 THEN Negated(a) ELSE a

\* The product of two magnitudes below 10^16 units, rounded to the unit, from
\* their digits in base 10^4.
TimesMagnitude(a, b) ==
    LET a0 == a.lo % 10000
        a1 == a.lo \div 10000
        a2 == a.hi % 10000
        a3 == a.hi \div 10000
        b0 == b.lo % 10000
        b1 == b.lo \div 10000
        b2 == b.hi % 10000
        b3 == b.hi \div 10000
        t1 == a0 * b1 + a1 * b0 + (a0 * b0) \div 10000
        t2 == a0 * b2 + a1 * b1 + a2 * b0 + t1 \div 10000
        t3 == a0 * b3 + a1 * b2 + a2 * b1 + a3 * b0 + (t2 + 5000) \div 10000
        t4 == a1 * b3 + a2 * b2 + a3 * b1 + t3 \div 10000
        t5 == a2 * b3 + a3 * b2 + t4 \div 10000
    IN  Fix((t5 % 10000) + 10000 * (a3 * b3 + t5 \div 10000),
            (t3 % 10000) + 10000 * (t4 % 10000))

\* a * b
Times(a, b) ==
    IF a.lo < 0 \/ b.lo < 0 THEN NaN
    ELSE IF (a.hi < 0) = (b.hi < 0) THEN TimesMagnitude(Magnitude(a), Magnitude(b))
    ELSE Negated(TimesMagnitude(Magnitude(a), Magnitude(b)))

\* 1 / b for b of 10^-4 .. 10^4, by Newton's iteration y (2 - b y) from the
\* quotient of the leading digits.
Reciprocal(b) ==
    LET y0 == Fix(1000000000 \div (10 * b.hi + b.lo \div 10000000), 0)
        y1 == Times(y0, Minus(Two, Times(b, y0)))
        y2 == Times(y1, Minus(Two, Times(b, y1)))
    IN  Times(y2, Minus(Two, Times(b, y2)))

\* a / b, for b > 0
DividedBy(a, b) ==
    IF a.lo < 0 \/ b.lo < 0 THEN NaN ELSE Times(a, Reciprocal(b))

\* a / n for a whole number n of 1 .. 1000 and a >= 0, rounded down.
DividedByWhole(a, n) ==
    LET t1 == (a.hi % n) * 10000 + (a.lo \div 10000)
        t0 == (t1 % n) * 10000 + (a.lo % 10000)
    IN  Fix(a.hi \div n, (t1 \div n) * 10000 + t0 \div n)

\* Math.PI, DEG = Math.PI / 180 and 180 / Math.PI
PI == Fix(31415, 92653590)
DEG == Fix(174, 53292520)
DegreesPerRadian == Fix(572957, 79513082)

\* A whole number of degrees.
Degrees(n) == Fix(10000 * n, 0)

\* 1 - x2 / (k (k + 1)) * (1 - x2 / ((k + 2) (k + 3)) * (...)), the factors up
\* to last: the series of the sine over x from k = 2, of the cosine from k = 1.
RECURSIVE Horner(_, _, _)
Horner(x2, k, last) ==
    IF k > last THEN One
    ELSE Minus(One, DividedByWhole(Times(x2, Horner(x2, k + 2, last)), k * (k + 1)))

\* Math.sin and Math.cos of radians 0 .. pi / 4, by their series.
SinSeries(x) == Times(x, Horner(Times(x, x), 2, 14))
CosSeries(x) == Horner(Times(x, x), 1, 13)

\* A whole number of degrees in radians.
Radians(d) == DividedByWhole(Times(Degrees(d), PI), 180)

\* The sine of a whole number of degrees, 0 .. 90.
SinQuarter(d) ==
    IF d <= 45 THEN SinSeries(Radians(d)) ELSE CosSeries(Radians(90 - d))

\* The angle of 0 .. 90 degrees whose sine is, up to its sign, that of r, for r
\* of 0 .. 359.
Folded(r) ==
    IF r <= 90 THEN r
    ELSE IF r <= 180 THEN 180 - r
    ELSE IF r <= 270 THEN r - 180
    ELSE 360 - r

\* Math.sin(d * DEG) for the whole degrees d of 0 .. 450.
SinDegrees ==
    [d \in 0..450 |->
        IF d % 360 <= 180 THEN SinQuarter(Folded(d % 360))
        ELSE Negated(SinQuarter(Folded(d % 360)))]

\* sin(d + f) = sin d cos f + cos d sin f, cos(d + f) = cos d cos f - sin d sin f
AngleSum(sd, cd, sf, cf) ==
    [sin |-> Plus(Times(sd, cf), Times(cd, sf)),
     cos |-> Minus(Times(cd, cf), Times(sd, sf))]

\* The sine and the cosine of d degrees plus x radians, for a whole d and an x
\* of half a degree at most, whose series end after the third term.
SinCosNear(d, x) ==
    AngleSum(SinDegrees[d], SinDegrees[d + 90],
             Times(x, Horner(Times(x, x), 2, 4)), Horner(Times(x, x), 1, 3))

\* The whole degree nearest to r.
NearestDegree(r) == (r.hi + 5000) \div 10000

\* Math.sin(a * DEG) and Math.cos(a * DEG): a is d + f for the nearest whole
\* degree d, and the sine and cosine of f are taken from their series.
SinCos(a) ==
    IF a.lo < 0 THEN [sin |-> NaN, cos |-> NaN]
    ELSE SinCosNear(NearestDegree(Fix(a.hi % 3600000, a.lo)),
                    Times(Minus(Fix(a.hi % 3600000, a.lo),
                                Degrees(NearestDegree(Fix(a.hi % 3600000, a.lo)))), DEG))

\* 1e-7
Tolerance == Fix(0, 100000)

\* The correction the run ended with: 0 before any iteration.
lastOf(dEs) == IF dEs = <<>> THEN Zero ELSE dEs[Len(dEs)]

\* dM * (1 - e * cos(E)): a correction that multiplies by the derivative.
correctionAt_Multiplies(M, e, eStar, E, at) ==
    Times(Minus(M, Minus(E, Times(eStar, at.sin))), Minus(One, Times(e, at.cos)))

\* const dM = M - (E - eStar * Math.sin(E * DEG));
\* const dE = dM / (1 - e * Math.cos(E * DEG)), for the sine and cosine at
correctionAt(M, e, eStar, E, at) ==
    DividedBy(Minus(M, Minus(E, Times(eStar, at.sin))), Minus(One, Times(e, at.cos)))

\* The dE of one iteration.
correction(M, e, eStar, E) == correctionAt(M, e, eStar, E, SinCos(E))

\* The loop of solveKepler, entered with iterate E after i iterations whose
\* corrections were dEs: the iterate the loop ends with, the number of
\* iterations made, the correction of the last one and all the corrections.
RECURSIVE keplerIterate(_, _, _, _, _, _)

\* The rest of an iteration whose correction is dE: E += dE, and the loop is
\* left if Math.abs(dE) < 1e-7, which is false of NaN, so that a run on NaN goes
\* on to the cap.
corrected(M, e, eStar, E, i, dEs, dE) ==
    IF Less(Magnitude(dE), Tolerance)
    THEN [E |-> Plus(E, dE), iterations |-> i + 1, dE |-> dE, dEs |-> Append(dEs, dE)]
    ELSE keplerIterate(M, e, eStar, Plus(E, dE), i + 1, Append(dEs, dE))

\* A loop that tests i <= 20 and so makes up to 21 iterations.
keplerIterate_OneMore(M, e, eStar, E, i, dEs) ==
    IF i > 20 THEN [E |-> E, iterations |-> i, dE |-> lastOf(dEs), dEs |-> dEs]
    ELSE corrected(M, e, eStar, E, i, dEs, correction(M, e, eStar, E))

\* for (let i = 0; i < 20; i++) { ... }
keplerIterate(M, e, eStar, E, i, dEs) ==
    IF i >= 20 THEN [E |-> E, iterations |-> i, dE |-> lastOf(dEs), dEs |-> dEs]
    ELSE corrected(M, e, eStar, E, i, dEs, correction(M, e, eStar, E))

\* const eStar = (180 / Math.PI) * e
eStarOf(e) == Times(DegreesPerRadian, e)

\* A first guess that takes the eccentricity to be 1: M + (180 / PI) * sin(M).
initialGuess_UnitEccentricity(M, eStar) == Plus(M, Times(DegreesPerRadian, SinCos(M).sin))

\* let E = M + eStar * Math.sin(M * DEG)
initialGuess(M, eStar) == Plus(M, Times(eStar, SinCos(M).sin))

\* The run of solveKepler(M, e).
keplerRun(M, e) ==
    keplerIterate(M, e, eStarOf(e), initialGuess(M, eStarOf(e)), 0, <<>>)

\* solveKepler(M, e)
solveKepler(M, e) == keplerRun(M, e).E

\* An angle of 1/100 degree and an eccentricity of 10^-4 as numbers of
\* solveKepler, and such a number to the nearest 1/100 degree.
Hundredths(M) == Fix(100 * M, 0)
TenThousandths(e) == Fix(e, 0)
InHundredths(a) == (a.hi + 50) \div 100

\* What getPlanetPosition returns for a name that has no elements.
DefaultPosition == [angle |-> 0, distance |-> 100]

\* ELEMENTS is an object literal, so ELEMENTS[name] also finds the properties
\* of Object.prototype: a function or an object, which is not falsy and whose
\* elements el[0] .. el[11] are undefined.
ObjectPrototypeNames ==
    {"constructor", "toString", "toLocaleString", "valueOf", "hasOwnProperty",
     "isPrototypeOf", "propertyIsEnumerable", "__proto__", "__defineGetter__",
     "__defineSetter__", "__lookupGetter__", "__lookupSetter__"}

\* const el = name === 'Pluto' ? PLUTO_ELEMENTS : ELEMENTS[name], where el is
\* an array of the tables.
elementsOf(tables, name) ==
    IF name = "Pluto" THEN tables.PLUTO_ELEMENTS ELSE tables.ELEMENTS[name]

\* The ecliptic coordinates xEcl and yEcl of the body for the eccentric anomaly
\* E, lines 95-111: the elements are those of elementsAt, E is in 1/100 degree.
eclipticFrom(at, E) ==
    LET a == RoundDiv(at.a, 100)
        e == RoundDiv(at.e, 10000)
        I == RoundDiv(at.I, 1000)
        wBar == RoundDiv(at.wBar, 1000)
        Omega == RoundDiv(at.Omega, 1000)
        xPrime == Mul(a, Cos(E) - e)
        yPrime == Mul(Mul(a, Sqrt(100000000 - e * e)), Sin(E))
        w == wBar - Omega
        O == Omega
        Inc == I
        cosw == Cos(w)
        sinw == Sin(w)
        cosO == Cos(O)
        sinO == Sin(O)
        cosInc == Cos(Inc)
        xEcl == Mul(xPrime, Mul(cosw, cosO) - Mul(Mul(sinw, sinO), cosInc))
              + Mul(yPrime, -Mul(sinw, cosO) - Mul(Mul(cosw, sinO), cosInc))
        yEcl == Mul(xPrime, Mul(cosw, sinO) + Mul(Mul(sinw, cosO), cosInc))
              + Mul(yPrime, -Mul(sinw, sinO) + Mul(Mul(cosw, cosO), cosInc))
    IN  [xEcl |-> xEcl, yEcl |-> yEcl]

\* The position on the plane of the ecliptic, lines 113-116.
positionFrom(at, E) ==
    LET xEcl == eclipticFrom(at, E).xEcl
        yEcl == eclipticFrom(at, E).yEcl
    IN  [angle |-> Atan2(yEcl, xEcl),
         distance |-> Sqrt(RoundDiv(xEcl, 1000) * RoundDiv(xEcl, 1000)
                           + RoundDiv(yEcl, 1000) * RoundDiv(yEcl, 1000))]

\* The eccentric anomaly, in 1/100 degree, for the elements: M = L - wBar
\* normalized, E = solveKepler(M, e).
eccentricAnomaly(at) ==
    InHundredths(solveKepler(
        Hundredths(normalizeDeg(at.L - RoundDiv(at.wBar, 1000))),
        TenThousandths(RoundDiv(at.e, 10000))))

\* getPlanetPosition(name, date)
getPlanetPosition(name, date) ==
    IF name # "Pluto" /\ name \notin DOMAIN elementTables.ELEMENTS
    THEN \* if (!el) return { angle: 0, distance: 1 }
         \* el is an inherited property: the arithmetic on undefined gives
         \* { angle: NaN, distance: NaN }
         IF name \in ObjectPrototypeNames
         THEN [angleIsNaN |-> TRUE, distanceIsNaN |-> TRUE]
         ELSE DefaultPosition
    ELSE positionFrom(elementsAt(elementsOf(elementTables, name), dateToCenturies(date)),
                      eccentricAnomaly(
                          elementsAt(elementsOf(elementTables, name), dateToCenturies(date))))

\* A getAllPositions over Object.keys(ELEMENTS) only.
getAllPositions_TableOnly(date) ==
    [name \in DOMAIN elementTables.ELEMENTS |-> getPlanetPosition(name, date)]

\* getAllPositions(date): the Map from name to position.
getAllPositions(date) ==
    [name \in DOMAIN elementTables.ELEMENTS \cup {"Pluto"} |-> getPlanetPosition(name, date)]

\* ------------------------------------------------- camera manager (module)
TransitionDuration == 1600

\* 0.08, the factor of controls.target.lerp in idle tracking.
TrackingAlpha == Frac(8, 100)

\* rawT = Math.min(elapsed / duration, 1), as a fraction in lowest terms.
rawProgress(elapsed, duration) ==
    IF elapsed >= duration THEN Frac(1, 1)
    ELSE LET g == GCD(duration, elapsed)
         IN  Frac(elapsed \div g, duration \div g)

\* The branch for rawT < 0.5: 8 * rawT^4.
easeFirstHalf(rawT) ==
    LET p == rawT.num
        q == rawT.den
    IN  Frac(8 * p * p * p * p, q * q * q * q)

\* The other branch: 1 - Math.pow(-2 * rawT + 2, 4) / 2.
easeSecondHalf(rawT) ==
    LET q == rawT.den
        q4 == q * q * q * q
        r == 2 * q - 2 * rawT.num
    IN  Frac(2 * q4 - r * r * r * r, 2 * q4)

\* Ease in-out quart: rawT < 0.5 ? 8 rawT^4 : 1 - (-2 rawT + 2)^4 / 2.
easeInOutQuart(rawT) ==
    IF 2 * rawT.num < rawT.den THEN easeFirstHalf(rawT) ELSE easeSecondHalf(rawT)

\* A smoothCameraTo that keeps the start pose of the transition it replaces.
newTransition_KeepsStart(mesh, staticTarget, zoomDist, explicitEndPos) ==
    [mesh |-> mesh,
     staticTarget |-> staticTarget,
     zoomDist |-> zoomDist,
     startPos |-> IF _transition # Null THEN _transition.startPos ELSE cameraPosition,
     startTarget |-> IF _transition # Null THEN _transition.startTarget ELSE controlsTarget,
     startTime |-> now,
     duration |-> TransitionDuration,
     explicitEndPos |-> explicitEndPos]

\* The record smoothCameraTo stores.
newTransition(mesh, staticTarget, zoomDist, explicitEndPos) ==
    [mesh |-> mesh,
     staticTarget |-> staticTarget,
     zoomDist |-> zoomDist,
     startPos |-> cameraPosition,
     startTarget |-> controlsTarget,
     startTime |-> now,
     duration |-> TransitionDuration,
     explicitEndPos |-> explicitEndPos]

\* liveTarget of updateCamera: the mesh's world position, read from the scene
\* graph (world) in the call, or the static target.
liveTargetOf(tr, world) ==
    IF tr.mesh # NoMesh THEN world[tr.mesh] ELSE tr.staticTarget

\* endPos of updateCamera.
endPosOf(tr, liveTarget) ==
    IF tr.explicitEndPos # Null
    THEN tr.explicitEndPos
    ELSE LET dir == subVectors(tr.startPos, tr.startTarget)
             e == add(liveTarget, normalizeTimes(dir, tr.zoomDist))
         IN  \* Math.max(endPos.y, zoomDist * 0.3)
             [e EXCEPT !.y = Max(e.y, RoundDiv(3 * tr.zoomDist, 10))]

\* A completion test that needs rawT to exceed 1.
finished_Strict(rawT) == rawT.num > rawT.den

\* A test that clears the transition once it is half way: rawT >= 0.5.
finished_AtHalf(rawT) == 2 * rawT.num >= rawT.den

\* Whether updateCamera clears the transition: rawT >= 1.
finished(rawT) == rawT.num >= rawT.den

\* ------------------------------------------------ OrbitControls (three.js)
\* controls.minDistance, controls.maxDistance and controls.dampingFactor, as
\* init() sets them; controls.enableDamping is true.
minDistance == 5
maxDistance == 500
dampingFactor == Frac(8, 100)

\* No rotation pending: sphericalDelta.theta and sphericalDelta.phi, in 1/100
\* degree, are 0.
NoRotation == [theta |-> 0, phi |-> 0]

\* Spherical.setFromVector3(offset): the radius in 1/100, the azimuth theta
\* about the Y axis and the polar angle phi from it in 1/100 degree; a vector
\* of length 0 has theta = phi = 0.
setFromVector3(offset) ==
    [radius |-> Sqrt(10000 * lengthSq(offset)),
     theta |-> Atan2(offset.x, offset.z),
     phi |-> Atan2(Sqrt(10000 * (offset.x * offset.x + offset.z * offset.z)),
                   100 * offset.y)]

\* Vector3.setFromSpherical(s)
setFromSpherical(s) ==
    LET sinPhiRadius == Mul(s.radius, Sin(s.phi))
    IN  Vec(RoundDiv(Mul(sinPhiRadius, Sin(s.theta)), 100),
            RoundDiv(Mul(s.radius, Cos(s.phi)), 100),
            RoundDiv(Mul(sinPhiRadius, Cos(s.theta)), 100))

\* controls.update() with the camera at position, the look-target at target,
\* the rotation delta and the shift pan pending: where it leaves
\* camera.position and controls.target, and what it leaves pending.  It takes
\* the offset of the camera from the look-target in spherical coordinates, adds
\* dampingFactor of the pending rotation, keeps phi within [0, pi] and the
\* radius within [minDistance, maxDistance], moves the look-target by
\* dampingFactor of the pending shift (target.addScaledVector(panOffset,
\* dampingFactor)), puts the camera at the look-target plus the offset and
\* keeps 1 - dampingFactor of the rotation and of the shift pending.  An offset
\* of length 0 has phi = 0, which makeSafe() moves off the pole by 1e-6, so it
\* becomes minDistance straight up.  With no rotation to apply and the radius
\* in range the offset is the one it was.
controlsUpdate(position, target, delta, pan) ==
    LET offset == subVectors(position, target)
        applied == [theta |-> RoundDiv(delta.theta * dampingFactor.num, dampingFactor.den),
                    phi |-> RoundDiv(delta.phi * dampingFactor.num, dampingFactor.den)]
        s == setFromVector3(offset)
        kept == /\ applied = NoRotation
                /\ lengthSq(offset) >= minDistance * minDistance
                /\ lengthSq(offset) <= maxDistance * maxDistance
        next == [radius |-> Max(100 * minDistance, Min(100 * maxDistance, s.radius)),
                 theta |-> s.theta + applied.theta,
                 phi |-> Max(0, Min(18000, s.phi + applied.phi))]
        damped(c) == RoundDiv(c * dampingFactor.num, dampingFactor.den)
        left(c) == RoundDiv(c * (dampingFactor.den - dampingFactor.num), dampingFactor.den)
        shifted == add(target, Vec(damped(pan.x), damped(pan.y), damped(pan.z)))
    IN  [position |-> add(shifted, IF kept THEN offset ELSE setFromSpherical(next)),
         target |-> shifted,
         sphericalDelta |-> [theta |-> left(delta.theta), phi |-> left(delta.phi)],
         panOffset |-> Vec(left(pan.x), left(pan.y), left(pan.z))]

\* ------------------------------------------------- camera manager, continued
\* smoothCameraTo(mesh, staticTarget, zoomDist, camera, controls, explicitEndPos)
smoothCameraTo(mesh, staticTarget, zoomDist, explicitEndPos) ==
    /\ _transition' = newTransition(mesh, staticTarget, zoomDist, explicitEndPos)
    /\ UNCHANGED <<cameraPosition, controlsTarget, sphericalDelta, panOffset>>

\* A branch that computes the offset direction in the start position itself,
\* startPos.sub(startTarget), instead of in a new vector.
advanceTransition_SubtractsInPlace(clock, world) ==
    LET tr == _transition
        elapsed == clock - tr.startTime
        rawT == rawProgress(elapsed, tr.duration)
        t == easeInOutQuart(rawT)
        liveTarget == liveTargetOf(tr, world)
        endPos == endPosOf(tr, liveTarget)
        target == lerpVectors(tr.startTarget, liveTarget, t)
        updated == controlsUpdate(lerpVectors(tr.startPos, endPos, t), target,
                                  sphericalDelta, panOffset)
    IN  [position |-> updated.position,
         target |-> updated.target,
         sphericalDelta |-> updated.sphericalDelta,
         panOffset |-> updated.panOffset,
         transition |->
             IF finished(rawT) THEN Null
             ELSE IF tr.explicitEndPos # Null THEN _transition
             ELSE [_transition EXCEPT !.startPos = subVectors(tr.startPos, tr.startTarget)],
         ret |-> TRUE]

\* updateCamera, the branch taken when a transition is active: what it leaves
\* camera.position, controls.target, the rotation pending in the controls and
\* _transition at, and what it returns.  controls.update() runs on the
\* interpolated position and look-target, and moves both by the damped part
\* of a pending shift.
advanceTransition(clock, world) ==
    LET tr == _transition
        elapsed == clock - tr.startTime
        rawT == rawProgress(elapsed, tr.duration)
        t == easeInOutQuart(rawT)
        liveTarget == liveTargetOf(tr, world)
        endPos == endPosOf(tr, liveTarget)
        target == lerpVectors(tr.startTarget, liveTarget, t)
        updated == controlsUpdate(lerpVectors(tr.startPos, endPos, t), target,
                                  sphericalDelta, panOffset)
    IN  [position |-> updated.position,
         target |-> updated.target,
         sphericalDelta |-> updated.sphericalDelta,
         panOffset |-> updated.panOffset,
         transition |-> IF finished(rawT) THEN Null ELSE _transition,
         ret |-> TRUE]

\* An idle branch that eases the camera instead of the look-target.
trackLocked_MovesCamera(lockedTargetArg, world) ==
    [position |-> IF lockedTargetArg # NoMesh
                  THEN lerpVectors(cameraPosition, world[lockedTargetArg], TrackingAlpha)
                  ELSE cameraPosition,
     target |-> controlsTarget,
     sphericalDelta |-> sphericalDelta,
     panOffset |-> panOffset,
     transition |-> _transition,
     ret |-> FALSE]

\* updateCamera, the branch taken when no transition is active.
trackLocked(lockedTargetArg, world) ==
    [position |-> cameraPosition,
     target |-> IF lockedTargetArg # NoMesh
                THEN lerpVectors(controlsTarget, world[lockedTargetArg], TrackingAlpha)
                ELSE controlsTarget,
     sphericalDelta |-> sphericalDelta,
     panOffset |-> panOffset,
     transition |-> _transition,
     ret |-> FALSE]

\* updateCamera(camera, controls, lockedTarget); clock is what performance.now()
\* returns in the call and world what getWorldPosition reports in the call.
updateCamera(clock, lockedTargetArg, world) ==
    IF _transition # Null
    THEN advanceTransition(clock, world)
    ELSE trackLocked(lockedTargetArg, world)

\* The camera, the controls and the transition slot as a call leaves them.
leaves(after) ==
    /\ cameraPosition' = after.position
    /\ controlsTarget' = after.target
    /\ sphericalDelta' = after.sphericalDelta
    /\ panOffset' = after.panOffset
    /\ _transition' = after.transition

\* A cancelTransition that puts the camera back to the start pose.
cancelTransition_SnapsBack ==
    /\ _transition' = Null
    /\ cameraPosition' = IF _transition # Null THEN _transition.startPos
                          ELSE cameraPosition
    /\ controlsTarget' = IF _transition # Null THEN _transition.startTarget
                          ELSE controlsTarget
    /\ UNCHANGED <<sphericalDelta, panOffset>>

\* cancelTransition()
cancelTransition ==
    /\ _transition' = Null
    /\ UNCHANGED <<cameraPosition, controlsTarget, sphericalDelta, panOffset>>

\* ------------------------------------------- the controller and its callers
\* Any caller: the three operations in any order, the anchors moving in
\* between.  Each updateCamera call is one frame, and performance.now() has
\* advanced since the frame before; an event handler (smoothCameraTo,
\* cancelTransition) runs between two frames.
NoCall == [op |-> "none", ret |-> FALSE, had |-> FALSE, locked |-> NoMesh,
           args |-> Null, tr |-> Null, date |-> Null]

\* The date the page is loaded at, new Date(): 2026-10-29T12:00:00Z.
StartDate == Date(9798, 0)

\* What the ephemeris history holds before any call, and for a watched
\* argument no call was made with yet.
NoEphCall == [op |-> "none", name |-> "", date |-> Null, again |-> FALSE]
NotYet == [notYet |-> TRUE]

\* The arguments whose first result is kept, to compare later results with.
WatchedArgs ==
    {[op |-> "getPlanetPosition", name |-> "Pluto", date |-> Date(-36525, 43200000)],
     [op |-> "getAllPositions", name |-> "", date |-> StartDate]}

\* The ephemeris module as loaded: the tables as written, no call made.
EphemerisAtRest ==
    /\ elementTables = [ELEMENTS |-> ELEMENTS, PLUTO_ELEMENTS |-> PLUTO_ELEMENTS]
    /\ ephCall = NoEphCall
    /\ firstResult = [w \in WatchedArgs |-> NotYet]

\* A pointer position: clientX, clientY.
Pt(x, y) == [x |-> x, y |-> y]

\* No release since the button last went down, and no drag before that.
NoGesture == [up |-> Null, afterDrag |-> FALSE]

\* The pointer, the navigation hint and the sound as init() leaves them: no
\* button has gone down, _wasDragging is undefined, which the test of
\* onCanvasClick takes as false, the hint shows, no sound plays and the sound
\* is not muted.
PointerAtRest ==
    /\ down = Pt(0, 0)
    /\ _wasDragging = FALSE
    /\ navHintVisible = TRUE
    /\ ambientPlaying = FALSE
    /\ muted = FALSE
    /\ gesture = NoGesture

Init ==
    /\ _transition = Null
    /\ cameraPosition = DEFAULT_CAM_POS
    /\ controlsTarget = DEFAULT_CAM_TARGET
    /\ sphericalDelta = NoRotation
    /\ panOffset = Vec(0, 0, 0)
    /\ now = 0
    /\ meshPos \in {f \in [Meshes -> AnchorPositions \cup {Vec(0, 0, 0), Vec(28, 0, 0)}] :
                       /\ f["Sun"] = Vec(0, 0, 0)
                       /\ f["Mars"] = Vec(28, 0, 0)
                       /\ \A m \in Orbiting : f[m] \in AnchorPositions}
    /\ call = NoCall
    /\ starts = 0
    \* the driver's state, which these callers leave as it is
    /\ simDate = StartDate
    /\ speedMultiplier = 1
    /\ speedMode = "artistic"
    /\ lockedTarget = NoMesh
    /\ rotationY = [p \in planetObjects |-> 0]
    /\ panelVisible = FALSE
    /\ closeButton = NoButton
    /\ clockRunning = FALSE
    /\ timeZone = "UTC"
    /\ hasSimTime = TRUE
    /\ EphemerisAtRest
    /\ PointerAtRest

CallSmoothCameraTo ==
    \E mesh \in MeshOrNull, staticTarget \in StaticTargets \cup AnchorPositions, zoomDist \in ZoomDists,
       explicitEndPos \in ExplicitEndPositions \cup {Null} :
        /\ starts < MaxStarts
        /\ now + TransitionDuration <= MaxTime
        \* with a mesh the caller passes its world position as staticTarget
        /\ mesh # NoMesh => staticTarget = meshPos[mesh]
        /\ mesh = NoMesh => staticTarget \in StaticTargets
        /\ smoothCameraTo(mesh, staticTarget, zoomDist, explicitEndPos)
        /\ call' = [op |-> "smoothCameraTo", ret |-> FALSE, had |-> _transition # Null,
                    locked |-> NoMesh,
                    args |-> [mesh |-> mesh, staticTarget |-> staticTarget,
                              zoomDist |-> zoomDist, explicitEndPos |-> explicitEndPos],
                    tr |-> _transition, date |-> Null]
        /\ starts' = starts + 1
        /\ UNCHANGED <<now, meshPos>>
        /\ UNCHANGED driverVars
        /\ UNCHANGED ephVars
        /\ UNCHANGED pointerVars

CallUpdateCamera ==
    \E dt \in FrameSteps, lockedTargetArg \in MeshOrNull :
        /\ now + dt <= MaxTime
        /\ now' = now + dt
        /\ leaves(updateCamera(now + dt, lockedTargetArg, meshPos))
        /\ call' = [op |-> "updateCamera",
                    ret |-> updateCamera(now + dt, lockedTargetArg, meshPos).ret,
                    had |-> _transition # Null,
                    locked |-> lockedTargetArg, args |-> Null, tr |-> _transition,
                    date |-> Null]
        /\ UNCHANGED <<meshPos, starts>>
        /\ UNCHANGED driverVars
        /\ UNCHANGED ephVars
        /\ UNCHANGED pointerVars

CallCancelTransition ==
    /\ cancelTransition
    /\ call' = [op |-> "cancelTransition", ret |-> FALSE, had |-> _transition # Null,
                locked |-> NoMesh, args |-> Null, tr |-> _transition, date |-> Null]
    /\ UNCHANGED <<now, meshPos, starts>>
    /\ UNCHANGED driverVars
    /\ UNCHANGED ephVars
    /\ UNCHANGED pointerVars

\* The user drags the pointer over the canvas with the left button down: the
\* pointermove handler of OrbitControls adds the angles of the drag to the
\* rotation pending (rotateLeft, rotateUp) and calls update().  A drag begins
\* when the drag before it has settled.
OrbitCamera ==
    \E angle \in DragAngles :
        /\ sphericalDelta = NoRotation
        /\ LET after == controlsUpdate(cameraPosition, controlsTarget,
                                       [theta |-> sphericalDelta.theta + angle.theta,
                                        phi |-> sphericalDelta.phi + angle.phi],
                                       panOffset)
           IN  /\ cameraPosition' = after.position
               /\ controlsTarget' = after.target
               /\ sphericalDelta' = after.sphericalDelta
               /\ panOffset' = after.panOffset
        /\ UNCHANGED <<_transition, now, meshPos, call, starts>>
        /\ UNCHANGED driverVars
        /\ UNCHANGED ephVars
        /\ UNCHANGED pointerVars

\* The scene graph moves an anchor.
MoveAnchor ==
    \E m \in Orbiting, p \in AnchorPositions :
        /\ meshPos[m] # p
        /\ meshPos' = [meshPos EXCEPT ![m] = p]
        /\ UNCHANGED <<_transition, cameraPosition, controlsTarget, sphericalDelta, panOffset, now, call, starts>>
        /\ UNCHANGED driverVars
        /\ UNCHANGED ephVars
        /\ UNCHANGED pointerVars

Next ==
    \/ CallSmoothCameraTo
    \/ CallUpdateCamera
    \/ CallCancelTransition
    \/ MoveAnchor
    \/ OrbitCamera

Spec == Init /\ [][Next]_vars

\* The distance, in scene units, a drag with the right button pans by: 2 *
\* deltaX * targetDistance / clientHeight of pan(), for a drag to the right.
PanDistances == {25}

\* The user drags the pointer over the canvas with the right button down: the
\* pointermove handler of OrbitControls adds minus the distance of the drag
\* times the camera's X axis to the shift pending (pan, panLeft) and calls
\* update().  The camera looks at the look-target with (0, 1, 0) up, so its X
\* axis is along (offset.z, 0, -offset.x), which a camera straight above or
\* below the look-target does not define.  A drag begins when no shift is
\* pending.
PanCamera ==
    \E distance \in PanDistances :
        /\ panOffset = Vec(0, 0, 0)
        /\ cameraPosition.x # controlsTarget.x \/ cameraPosition.z # controlsTarget.z
        /\ LET offset == subVectors(cameraPosition, controlsTarget)
               xAxis == Vec(offset.z, 0, -offset.x)
               moved == normalizeTimes(xAxis, distance)
               after == controlsUpdate(cameraPosition, controlsTarget, sphericalDelta,
                                       subVectors(panOffset, moved))
           IN  /\ cameraPosition' = after.position
               /\ controlsTarget' = after.target
               /\ sphericalDelta' = after.sphericalDelta
               /\ panOffset' = after.panOffset
        /\ UNCHANGED <<_transition, now, meshPos, call, starts>>
        /\ UNCHANGED driverVars
        /\ UNCHANGED ephVars
        /\ UNCHANGED pointerVars

\* Any caller, and a user who pans.
NextPan ==
    \/ CallSmoothCameraTo
    \/ CallUpdateCamera
    \/ CallCancelTransition
    \/ MoveAnchor
    \/ PanCamera

SpecPan == Init /\ [][NextPan]_vars

\* ---------------------------------------------------- main (the frame driver)
\* PLANETS, the fields the driver reads: radius in 1/100, distance in scene units.
PLANETS ==
    [Earth |-> [radius |-> 100, distance |-> 22],
     Mars  |-> [radius |-> 53, distance |-> 28]]

\* The entries of PLANETS for the social-link planets, with the fields the
\* driver reads of them: isSocialLink, url, startAngle in 1/100 degree and
\* orbitalPeriod.
SocialLinkData ==
    [GitHub |-> [radius |-> 60, distance |-> 34, isSocialLink |-> TRUE,
                 url |-> "https://github.com/abhaysharma107",
                 startAngle |-> 9000, orbitalPeriod |-> 21600]]

\* p.data
dataOf(p) == IF p \in DOMAIN SocialLinkData THEN SocialLinkData[p] ELSE PLANETS[p]

\* p.data.isSocialLink, undefined for the planets the ephemeris places.
isSocialLink(p) == p \in DOMAIN SocialLinkData /\ SocialLinkData[p].isSocialLink

\* The radius focusBodyByName takes for the Sun, in 1/100.
SunRadius == 400

\* mesh.getWorldPosition() of a planet mesh: the mesh sits at (distance, 0, 0)
\* in its orbit pivot, which is rotated by rotY about the Y axis.
worldPosition(distance, rotY) ==
    Vec(RoundDiv(distance * Cos(rotY), 10000), 0, -RoundDiv(distance * Sin(rotY), 10000))

\* getWorldPosition() of every mesh, given the rotations of the orbit pivots.
worldPositions(rot) ==
    [m \in Meshes |->
        IF m = "Sun" THEN Vec(0, 0, 0) ELSE worldPosition(PLANETS[m].distance, rot[m])]

\* p.data.ephemerisName || p.data.name: the name a planet is looked up by in
\* the Map of getAllPositions; the entries of PLANETS are keyed by data.name.
ephemerisNameOf(p) ==
    IF "ephemerisName" \in DOMAIN dataOf(p) /\ dataOf(p).ephemerisName # ""
    THEN dataOf(p).ephemerisName
    ELSE p

\* An applyEphemeris that copies the angle without negating it.
applyEphemeris_SameSign(date, rot) ==
    [p \in planetObjects |->
        IF isSocialLink(p) THEN rot[p]
        ELSE IF ephemerisNameOf(p) \in ElementNames \cup {"Pluto"}
        THEN getAllPositions(date)[ephemerisNameOf(p)].angle
        ELSE rot[p]]

\* applyEphemeris(date): the rotations of the orbit pivots it leaves, from rot.
applyEphemeris(date, rot) ==
    [p \in planetObjects |->
        IF isSocialLink(p) THEN rot[p]
        \* positions.get(name) is defined for the names getAllPositions sets
        ELSE IF ephemerisNameOf(p) \in ElementNames \cup {"Pluto"}
        THEN -getAllPositions(date)[ephemerisNameOf(p)].angle
        ELSE rot[p]]

\* The pivots after the loop over the social-link planets in animate():
\* rotation.y += (2 * PI / orbitalPeriod) * delta * 60, delta in 1/10 ms and
\* the angle in 1/100 degree.
orbitSocialLinks(rot, delta) ==
    [p \in planetObjects |->
        IF isSocialLink(p)
        THEN rot[p] + RoundDiv(216 * delta, dataOf(p).orbitalPeriod)
        ELSE rot[p]]

\* clock.getDelta() of the frame that updateCamera sees dt ms after the frame
\* before, in 1/10 ms.  The first getDelta() starts the clock and returns 0.
\* THREE.Clock reads performance.now(), whose values are not whole
\* milliseconds, at another instant of the frame than updateCamera.
clockDelta(dt) == IF ~clockRunning THEN 0 ELSE IF dt = 400 THEN 4005 ELSE 10 * dt

\* The date animate() advances simDate to, delta in 1/10 ms:
\* new Date(simDate.getTime() + delta * 1000) in real-time mode and
\* new Date(simDate.getTime() + delta * speedMultiplier * 2 * 86400000)
\* otherwise, where new Date(t) drops the part of t below a millisecond.
advancedDate(date, delta) ==
    IF speedMode = "realtime"
    THEN addMilliseconds(date, delta \div 10)
    ELSE addMilliseconds(date, delta * speedMultiplier * 17280)

\* What updateCamera left, with the camera, the look-target and what is
\* pending in the controls as an update() of the controls leaves them.
withUpdate(after, updated) ==
    [after EXCEPT !.position = updated.position,
                  !.target = updated.target,
                  !.sphericalDelta = updated.sphericalDelta,
                  !.panOffset = updated.panOffset]

\* controls.update() in animate(), on what updateCamera left.
thenControlsUpdate(after) ==
    withUpdate(after, controlsUpdate(after.position, after.target, after.sphericalDelta,
                                     after.panOffset))

\* An animate() that updates the camera before the date and the pivots.
animate_CameraFirst(dt) ==
    /\ now' = now + dt
    /\ leaves(thenControlsUpdate(updateCamera(now + dt, lockedTarget, meshPos)))
    /\ simDate' = advancedDate(simDate, clockDelta(dt))
    /\ rotationY' = orbitSocialLinks(applyEphemeris(simDate', rotationY), clockDelta(dt))
    /\ meshPos' = worldPositions(rotationY')
    /\ clockRunning' = TRUE
    /\ UNCHANGED <<speedMultiplier, speedMode, lockedTarget, panelVisible, closeButton>>

\* animate(), one frame dt ms after the frame before: the date is advanced,
\* applyEphemeris(simDate) turns the pivots, updateCamera, whose value animate
\* discards, reads the world positions the turned pivots give, and
\* controls.update() runs on what updateCamera leaves.
animate(dt) ==
    /\ now' = now + dt
    /\ simDate' = advancedDate(simDate, clockDelta(dt))
    /\ rotationY' = orbitSocialLinks(applyEphemeris(simDate', rotationY), clockDelta(dt))
    /\ meshPos' = worldPositions(rotationY')
    /\ leaves(thenControlsUpdate(updateCamera(now + dt, lockedTarget, meshPos')))
    /\ clockRunning' = TRUE
    /\ UNCHANGED <<speedMultiplier, speedMode, lockedTarget, panelVisible, closeButton>>

\* zoomDist = radius * 7 + 5
zoomDistOf(radius) == RoundDiv(radius * 7, 100) + 5

\* The names BODY_INFO has an entry for.
BODY_INFO ==
    {"Sun", "Mercury", "Venus", "Earth", "Mars", "Jupiter", "Saturn", "Uranus",
     "Neptune", "Pluto"}

\* showInfoPanel(name, color, unlockFn).  BODY_INFO[name] is tested for truth:
\* it is an object for the names BODY_INFO has an entry for and a function or
\* an object for the names it inherits from Object.prototype.  If it is
\* undefined the function returns at once; otherwise it writes the panel anew,
\* with a new #ip-close-btn, gives the panel the class visible and gives the
\* button a listener that holds unlockFn: "unlockTarget" for the function
\* focusBodyByName hands over, () => { lockedTarget = null; }, "undefined"
\* for a call that hands none.
showInfoPanel(name, unlockFn) ==
    IF name \in BODY_INFO \cup ObjectPrototypeNames
    THEN /\ panelVisible' = TRUE
         /\ closeButton' = unlockFn
    ELSE UNCHANGED <<panelVisible, closeButton>>

\* hideInfoPanel(): the class visible is taken off #info-panel.
hideInfoPanel == panelVisible' = FALSE

\* A focusBodyByName that drops the lock before it looks the body up.
focusBodyByName_UnlocksFirst(name, found) ==
    IF /\ name # "Abhay Sharma"
       /\ \/ name \notin planetObjects
          \/ isSocialLink(name) /\ dataOf(name).url # ""
    THEN /\ found = FALSE
         /\ lockedTarget' = NoMesh
         /\ UNCHANGED <<_transition, cameraPosition, controlsTarget, sphericalDelta, panOffset,
                        panelVisible, closeButton>>
    ELSE LET mesh == IF name = "Abhay Sharma" THEN "Sun" ELSE name
             radius == IF name = "Abhay Sharma" THEN SunRadius ELSE dataOf(name).radius
         IN  /\ found = TRUE
             /\ lockedTarget' = mesh
             /\ smoothCameraTo(mesh, meshPos[mesh], zoomDistOf(radius), Null)
             /\ showInfoPanel(name, "unlockTarget")

\* focusBodyByName(name); found tells whether a transition was started.
focusBodyByName(name, found) ==
    IF /\ name # "Abhay Sharma"
       /\ \/ name \notin planetObjects
          \* a social-link planet: window.open(p.data.url), return
          \/ isSocialLink(name) /\ dataOf(name).url # ""
    THEN /\ found = FALSE
         /\ UNCHANGED <<_transition, cameraPosition, controlsTarget, sphericalDelta, panOffset,
                        lockedTarget, panelVisible, closeButton>>
    ELSE LET mesh == IF name = "Abhay Sharma" THEN "Sun" ELSE name
             radius == IF name = "Abhay Sharma" THEN SunRadius ELSE dataOf(name).radius
         IN  /\ found = TRUE
             /\ lockedTarget' = mesh
             /\ smoothCameraTo(mesh, meshPos[mesh], zoomDistOf(radius), Null)
             /\ showInfoPanel(name, "unlockTarget")

\* A resetCamera that leaves the locked target as it is.
resetCamera_KeepsLock ==
    /\ lockedTarget' = lockedTarget
    /\ smoothCameraTo(NoMesh, DEFAULT_CAM_TARGET, 0, DEFAULT_CAM_POS)
    /\ hideInfoPanel
    /\ UNCHANGED closeButton

\* resetCamera()
resetCamera ==
    /\ lockedTarget' = NoMesh
    /\ smoothCameraTo(NoMesh, DEFAULT_CAM_TARGET, 0, DEFAULT_CAM_POS)
    /\ hideInfoPanel
    /\ UNCHANGED closeButton

\* The click handler of a data-speed button with value v.
clickSpeed(v) ==
    /\ speedMode' = "artistic"
    /\ speedMultiplier' = v

\* A real-time handler that leaves the multiplier as it is.
clickRealtime_KeepsMultiplier ==
    /\ speedMode' = "realtime"
    /\ speedMultiplier' = speedMultiplier

\* The click handler of #btn-realtime.
clickRealtime ==
    /\ speedMode' = "realtime"
    /\ speedMultiplier' = 1

\* The minutes the local time of a zone is ahead of UTC at a date, by the
\* rules in force since 2007.  In America/Los_Angeles daylight time (UTC-7)
\* runs from 10:00 UTC of the second Sunday of March to 09:00 UTC of the first
\* Sunday of November, standard time being UTC-8.  In Pacific/Auckland
\* standard time (UTC+12) runs from 14:00 UTC of the day before the first
\* Sunday of April to 14:00 UTC of the day before the last Sunday of
\* September, daylight time being UTC+13.  Calendar days are numbered with
\* 2000-01-01, a Saturday, as day 0.
zoneOffset(zone, date) ==
    LET \* the calendar day (UTC) of the date and the milliseconds of it gone by
        n == date.day + (date.ms + 43200000) \div 86400000
        t == (date.ms + 43200000) % 86400000
        \* the year (UTC) of the day n, counted in years that begin in March
        doe == (n + 730425) % 146097
        yoe == (doe - doe \div 1460 + doe \div 36524 - doe \div 146096) \div 365
        doy == doe - (365 * yoe + yoe \div 4 - yoe \div 100)
        year == yoe + ((n + 730425) \div 146097) * 400
                    + (IF (5 * doy + 2) \div 153 >= 10 THEN 1 ELSE 0)
        \* the number of the day d of month m, March or later, of that year
        dayNumber(m, d) ==
            ((year \div 400) * 146097 + (year % 400) * 365 + (year % 400) \div 4
                - (year % 400) \div 100 + (153 * (m - 3) + 2) \div 5 + d - 1) - 730425
        \* the first Sunday on or after the day k
        sundayFrom(k) == k + ((7 - ((k + 6) % 7)) % 7)
        \* whether the date is at or after hour h (UTC) of the day k
        from(k, h) == n > k \/ (n = k /\ t >= h * 3600000)
    IN  IF zone = "America/Los_Angeles"
        THEN IF from(sundayFrom(dayNumber(3, 8)), 10)
                /\ ~from(sundayFrom(dayNumber(11, 1)), 9)
             THEN -420 ELSE -480
        ELSE IF zone = "Pacific/Auckland"
        THEN IF from(sundayFrom(dayNumber(4, 1)) - 1, 14)
                /\ ~from(sundayFrom(dayNumber(9, 24)) - 1, 14)
             THEN 720 ELSE 780
        ELSE 0

\* simDate.toLocaleDateString('en-US', opts): year, month and day of the date
\* in the zone of the environment, held as the number of that calendar day,
\* 2000-01-01 being day 0.
dateString(date, zone) ==
    date.day + (date.ms + 43200000 + zoneOffset(zone, date) * 60000) \div 86400000

\* updateSimClock(simDate): the textContent it gives #sim-time, as the mode and
\* the multiplier are when it runs; on a page without the element it returns
\* at once and writes nothing.
updateSimClock(date) ==
    IF ~hasSimTime
    THEN [text |-> "nothing written"]
    ELSE IF speedMode = "artistic" /\ speedMultiplier = 0
    THEN [text |-> "Paused"]
    ELSE IF speedMode = "realtime"
    THEN [text |-> "date", dateStr |-> dateString(date, timeZone), suffix |-> "Real-time"]
    ELSE [text |-> "date", dateStr |-> dateString(date, timeZone), suffix |-> ""]

\* init(): the camera at DEFAULT_CAM_POS, the pivots set by applyEphemeris(new
\* Date()), simDate the date of loading, nothing locked, the clock made and
\* not yet started, the info panel as the page has it.
AfterInit ==
    /\ EphemerisAtRest
    /\ PointerAtRest
    /\ _transition = Null
    /\ cameraPosition = DEFAULT_CAM_POS
    /\ controlsTarget = DEFAULT_CAM_TARGET
    /\ sphericalDelta = NoRotation
    /\ panOffset = Vec(0, 0, 0)
    /\ now = 0
    /\ simDate = StartDate
    /\ speedMultiplier = 1
    /\ speedMode = "artistic"
    /\ lockedTarget = NoMesh
    \* applyEphemeris(simDate), then the loop that sets the social-link
    \* planets to their startAngle
    /\ rotationY = [p \in planetObjects |->
                       IF isSocialLink(p)
                       THEN dataOf(p).startAngle
                       ELSE applyEphemeris(StartDate, [q \in planetObjects |-> 0])[p]]
    /\ meshPos = worldPositions(rotationY)
    /\ panelVisible = FALSE
    /\ closeButton = NoButton
    /\ clockRunning = FALSE
    /\ call = NoCall
    /\ starts = 0

\* init() on a page with #sim-time, in the zone UTC.
InitDriver ==
    /\ AfterInit
    /\ timeZone = "UTC"
    /\ hasSimTime = TRUE

\* init() on either page, in any of the zones.
InitClock ==
    /\ AfterInit
    /\ timeZone \in TimeZones
    /\ hasSimTime \in BOOLEAN

Frame ==
    \E dt \in FrameSteps :
        /\ now + dt <= MaxTime
        /\ animate(dt)
        /\ call' = [op |-> "updateCamera", ret |-> FALSE, had |-> _transition # Null,
                    locked |-> lockedTarget, args |-> Null, tr |-> _transition,
                    date |-> simDate, delta |-> clockDelta(dt),
                    clock |-> updateSimClock(simDate')]
        /\ UNCHANGED starts
        /\ UNCHANGED envVars
        /\ UNCHANGED ephVars
        /\ UNCHANGED pointerVars

ClickBody ==
    \E name \in FocusNames, found \in BOOLEAN :
        /\ starts < MaxStarts
        /\ now + TransitionDuration <= MaxTime
        /\ focusBodyByName(name, found)
        /\ call' = [op |-> IF found THEN "smoothCameraTo" ELSE "focusBodyByName",
                    ret |-> FALSE, had |-> _transition # Null, locked |-> NoMesh,
                    args |-> [name |-> name], tr |-> _transition, date |-> simDate,
                    \* the url handed to window.open, "" if none is opened
                    opened |-> IF name \in planetObjects /\ isSocialLink(name)
                               THEN dataOf(name).url
                               ELSE ""]
        /\ starts' = IF found THEN starts + 1 ELSE starts
        /\ UNCHANGED <<now, meshPos, simDate, speedMultiplier, speedMode, rotationY,
                       clockRunning>>
        /\ UNCHANGED envVars
        /\ UNCHANGED ephVars
        /\ UNCHANGED pointerVars

ClickReset ==
    /\ starts < MaxStarts
    /\ now + TransitionDuration <= MaxTime
    /\ resetCamera
    /\ call' = [op |-> "smoothCameraTo", ret |-> FALSE, had |-> _transition # Null,
                locked |-> NoMesh, args |-> [name |-> "reset"], tr |-> _transition,
                date |-> simDate]
    /\ starts' = starts + 1
    /\ UNCHANGED <<now, meshPos, simDate, speedMultiplier, speedMode, rotationY,
                   clockRunning>>
    /\ UNCHANGED envVars
    /\ UNCHANGED ephVars
    /\ UNCHANGED pointerVars

\* The click listener of #ip-close-btn, once showInfoPanel has made the
\* button: hideInfoPanel(), then unlockFn() if the listener holds one.  The
\* listener tests nothing: it runs on every click the button takes, whether
\* or not the panel has the class visible.
ClickClose ==
    /\ closeButton # NoButton
    /\ hideInfoPanel
    /\ lockedTarget' = IF closeButton = "unlockTarget" THEN NoMesh ELSE lockedTarget
    /\ UNCHANGED <<_transition, cameraPosition, controlsTarget, sphericalDelta, panOffset, now, meshPos, call,
                   starts, simDate, speedMultiplier, speedMode, rotationY,
                   closeButton, clockRunning>>
    /\ UNCHANGED envVars
    /\ UNCHANGED ephVars
    /\ UNCHANGED pointerVars

ClickSpeed ==
    \E v \in SpeedValues :
        /\ speedMode # "artistic" \/ speedMultiplier # v
        /\ clickSpeed(v)
        /\ UNCHANGED <<_transition, cameraPosition, controlsTarget, sphericalDelta, panOffset, now, meshPos, call,
                       starts, simDate, lockedTarget, rotationY, panelVisible,
                       closeButton, clockRunning>>
        /\ UNCHANGED envVars
        /\ UNCHANGED ephVars
        /\ UNCHANGED pointerVars

ClickRealtime ==
    /\ speedMode # "realtime"
    /\ clickRealtime
    /\ UNCHANGED <<_transition, cameraPosition, controlsTarget, sphericalDelta, panOffset, now, meshPos, call,
                   starts, simDate, lockedTarget, rotationY, panelVisible,
                   closeButton, clockRunning>>
    /\ UNCHANGED envVars
    /\ UNCHANGED ephVars
    /\ UNCHANGED pointerVars

NextDriver ==
    \/ Frame
    \/ ClickBody
    \/ ClickReset
    \/ ClickClose
    \/ ClickSpeed
    \/ ClickRealtime

SpecDriver == InitDriver /\ [][NextDriver]_vars

\* ------------------------------------------------ the speed buttons, watched
\* The clicks on the speed buttons and on the real-time button, each leaving a
\* note of the button clicked, between the frames that advance the date and
\* write the clock.
PressSpeed ==
    \E v \in SpeedValues :
        /\ clickSpeed(v)
        /\ call' = [op |-> "clickSpeed", ret |-> FALSE, had |-> _transition # Null,
                    locked |-> NoMesh, args |-> Null, tr |-> _transition,
                    date |-> simDate, speed |-> v]
        /\ UNCHANGED <<_transition, cameraPosition, controlsTarget, sphericalDelta, panOffset, now, meshPos,
                       starts, simDate, lockedTarget, rotationY, panelVisible,
                       closeButton, clockRunning>>
        /\ UNCHANGED envVars
        /\ UNCHANGED ephVars
        /\ UNCHANGED pointerVars

PressRealtime ==
    /\ clickRealtime
    /\ call' = [op |-> "clickRealtime", ret |-> FALSE, had |-> _transition # Null,
                locked |-> NoMesh, args |-> Null, tr |-> _transition, date |-> simDate]
    /\ UNCHANGED <<_transition, cameraPosition, controlsTarget, sphericalDelta, panOffset, now, meshPos,
                   starts, simDate, lockedTarget, rotationY, panelVisible,
                   closeButton, clockRunning>>
    /\ UNCHANGED envVars
    /\ UNCHANGED ephVars
    /\ UNCHANGED pointerVars

NextClock ==
    \/ Frame
    \/ PressSpeed
    \/ PressRealtime

SpecClock == InitClock /\ [][NextClock]_vars

\* ------------------------------------------- the exports of ui/controls, called
\* setSpeedMultiplier(v), called by another module.
CallSetSpeedMultiplier ==
    \E v \in SpeedValues \cup {1} :
        /\ speedMultiplier' = v
        /\ UNCHANGED <<_transition, cameraPosition, controlsTarget, sphericalDelta, panOffset, now, meshPos, call,
                       starts, simDate, speedMode, lockedTarget, rotationY, panelVisible,
                       closeButton, clockRunning>>
        /\ UNCHANGED envVars
        /\ UNCHANGED ephVars
        /\ UNCHANGED pointerVars

\* setSpeedMode(m), called by another module.
CallSetSpeedMode ==
    \E m \in {"artistic", "realtime"} :
        /\ speedMode' = m
        /\ UNCHANGED <<_transition, cameraPosition, controlsTarget, sphericalDelta, panOffset, now, meshPos, call,
                       starts, simDate, speedMultiplier, lockedTarget, rotationY, panelVisible,
                       closeButton, clockRunning>>
        /\ UNCHANGED envVars
        /\ UNCHANGED ephVars
        /\ UNCHANGED pointerVars

\* showInfoPanel(name, color), called by another module, which has no
\* function to hand over that reaches main's lockedTarget: for a body, for a
\* name BODY_INFO has no entry for, and for a name it inherits.
CallShowInfoPanel ==
    \E name \in {"Earth", "Ceres", "constructor"} :
        /\ showInfoPanel(name, "undefined")
        /\ UNCHANGED <<_transition, cameraPosition, controlsTarget, sphericalDelta, panOffset, now, meshPos, call,
                       starts, simDate, speedMultiplier, speedMode, lockedTarget, rotationY,
                       clockRunning>>
        /\ UNCHANGED envVars
        /\ UNCHANGED ephVars
        /\ UNCHANGED pointerVars

\* hideInfoPanel(), called by another module.
CallHideInfoPanel ==
    /\ hideInfoPanel
    /\ UNCHANGED <<_transition, cameraPosition, controlsTarget, sphericalDelta, panOffset, now, meshPos, call,
                   starts, simDate, speedMultiplier, speedMode, lockedTarget, rotationY,
                   closeButton, clockRunning>>
    /\ UNCHANGED envVars
    /\ UNCHANGED ephVars
    /\ UNCHANGED pointerVars

NextExports ==
    \/ NextDriver
    \/ CallSetSpeedMultiplier
    \/ CallSetSpeedMode
    \/ CallShowInfoPanel
    \/ CallHideInfoPanel

SpecExports == InitDriver /\ [][NextExports]_vars

\* --------------------------------------------- the ephemeris under any caller
\* The names getPlanetPosition is called with: the bodies of the tables, Pluto,
\* "Ceres", which the tables do not hold, and "constructor", "valueOf" and
\* "hasOwnProperty", which they do not hold either and Object.prototype does.
EphemerisNames ==
    ElementNames \cup {"Pluto", "Ceres", "constructor", "valueOf", "hasOwnProperty"}

\* The dates it is called with: 1900-01-01T00:00:00Z, 1950-01-01T12:00:00Z,
\* J2000.0, 2008-03-19T12:20:34.567Z, the date of loading, 2027-03-21T05:40:00Z
\* and 06:53:20Z, when the Earth is 0.004 and 0.054 degree past the longitude
\* of 180 degrees, 2050-01-01T00:00:00Z and 2100-12-31T23:59:59.999Z.
EphemerisDates ==
    {Date(-36525, 43200000), Date(-18262, 0), Date(0, 0), Date(3000, 1234567),
     StartDate, Date(9940, 63600000), Date(9940, 68000000), Date(18262, 43200000),
     Date(36889, 43199999)}

\* The mean anomalies, in 1/100 degree, and the eccentricities, in 10^-4,
\* solveKepler is called with, and the NaN it is called with for a name whose
\* elements are undefined.
KeplerInputs ==
    {[M |-> Hundredths(M), e |-> TenThousandths(e)] :
        M \in {-18000, -9000, -4711, -1, 0, 1, 241, 3000, 9000, 17999, 18000},
        e \in {0, 167, 2056, 9000}}
    \cup {[M |-> NaN, e |-> NaN]}

\* Whether a call with a watched argument was made before.
calledBefore(args) == args \in WatchedArgs /\ firstResult[args] # NotYet

\* The history after a call c: the first result per watched argument.
remember(c) ==
    LET args == [op |-> c.op, name |-> c.name, date |-> c.date]
    IN  IF args \in WatchedArgs /\ firstResult[args] = NotYet
        THEN [firstResult EXCEPT ![args] = c.result]
        ELSE firstResult

\* The extrapolated elements getPlanetPosition computes for a body, lines 82-87.
elementsUsed(name, date) ==
    IF name # "Pluto" /\ name \notin DOMAIN elementTables.ELEMENTS THEN Null
    ELSE elementsAt(elementsOf(elementTables, name), dateToCenturies(date))

\* A getPlanetPosition that extrapolates the elements in the array of the
\* table: el[0] += el[1] * T, ..., el[10] += el[11] * T.
callGetPlanetPosition_WritesBack(name, date) ==
  LET extrapolatedInPlace(el, T) ==
        [k \in 1..12 |-> IF k % 2 = 1 THEN el[k] + RateTimesT(el[k + 1], T) ELSE el[k]]
  IN
    /\ ephCall' = [op |-> "getPlanetPosition", name |-> name, date |-> date,
                   again |-> calledBefore([op |-> "getPlanetPosition", name |-> name,
                                           date |-> date]),
                   T |-> dateToCenturies(date), at |-> elementsUsed(name, date),
                   result |-> getPlanetPosition(name, date)]
    /\ elementTables' =
         IF name = "Pluto"
         THEN [elementTables EXCEPT
                  !.PLUTO_ELEMENTS = extrapolatedInPlace(@, dateToCenturies(date))]
         ELSE IF name \in DOMAIN elementTables.ELEMENTS
         THEN [elementTables EXCEPT
                  !.ELEMENTS[name] = extrapolatedInPlace(@, dateToCenturies(date))]
         ELSE elementTables

\* A call getPlanetPosition(name, date) and what it leaves of the module's
\* state: it assigns its own constants only.
callGetPlanetPosition(name, date) ==
    /\ ephCall' = [op |-> "getPlanetPosition", name |-> name, date |-> date,
                   again |-> calledBefore([op |-> "getPlanetPosition", name |-> name,
                                           date |-> date]),
                   T |-> dateToCenturies(date), at |-> elementsUsed(name, date),
                   result |-> getPlanetPosition(name, date)]
    /\ UNCHANGED elementTables

controllerVars ==
    <<_transition, cameraPosition, controlsTarget, sphericalDelta, panOffset, now, meshPos, call, starts>>

\* What a caller hands over when it enters a function of the module: the
\* function and its arguments.
Entered(callee, args) ==
    [op |-> "entered", callee |-> callee, args |-> args, again |-> FALSE]

\* The function entered, if one is.
Running(callee) == ephCall.op = "entered" /\ ephCall.callee = callee

EphGetPlanetPosition ==
    /\ Running("getPlanetPosition")
    /\ callGetPlanetPosition(ephCall.args.name, ephCall.args.date)
    /\ firstResult' = remember(ephCall')
    /\ UNCHANGED <<controllerVars, driverVars, pointerVars>>

\* A call getAllPositions(date): the Map it builds is its own.
EphGetAllPositions ==
    /\ Running("getAllPositions")
    /\ ephCall' = [op |-> "getAllPositions", name |-> "", date |-> ephCall.args.date,
                   again |-> calledBefore([op |-> "getAllPositions", name |-> "",
                                           date |-> ephCall.args.date]),
                   result |-> getAllPositions(ephCall.args.date)]
    /\ UNCHANGED elementTables
    /\ firstResult' = remember(ephCall')
    /\ UNCHANGED <<controllerVars, driverVars, pointerVars>>

EphSolveKepler ==
    /\ Running("solveKepler")
    /\ ephCall' = [op |-> "solveKepler", name |-> "", date |-> Null,
                   again |-> FALSE, M |-> ephCall.args.M, e |-> ephCall.args.e,
                   run |-> keplerRun(ephCall.args.M, ephCall.args.e),
                   E0 |-> initialGuess(ephCall.args.M, eStarOf(ephCall.args.e)),
                   result |-> solveKepler(ephCall.args.M, ephCall.args.e)]
    /\ UNCHANGED <<elementTables, firstResult, controllerVars, driverVars, pointerVars>>

\* Angles handed to normalizeDeg, in 1/100 degree: both sides of every fold.
InputAngles ==
    {-90000, -54000, -36001, -27000, -18001, -18000, -17999, -1, 0, 1,
     17999, 18000, 18001, 27000, 36000, 54000}

EphNormalizeDeg ==
    /\ Running("normalizeDeg")
    /\ ephCall' = [op |-> "normalizeDeg", name |-> "", date |-> Null,
                   again |-> FALSE, deg |-> ephCall.args.deg,
                   result |-> normalizeDeg(ephCall.args.deg)]
    /\ UNCHANGED <<elementTables, firstResult, controllerVars, driverVars, pointerVars>>

\* A caller enters one function of the module at a time, which runs to its
\* return before the next is entered.
EphEnter ==
    /\ ephCall.op # "entered"
    /\ \/ \E name \in EphemerisNames, date \in EphemerisDates :
            ephCall' = Entered("getPlanetPosition", [name |-> name, date |-> date])
       \/ \E date \in EphemerisDates :
            ephCall' = Entered("getAllPositions", [date |-> date])
       \/ \E in \in KeplerInputs :
            ephCall' = Entered("solveKepler", in)
       \/ \E deg \in InputAngles :
            ephCall' = Entered("normalizeDeg", [deg |-> deg])
    /\ UNCHANGED <<elementTables, firstResult, controllerVars, driverVars, pointerVars>>

NextEphemeris ==
    \/ EphEnter
    \/ EphGetPlanetPosition
    \/ EphGetAllPositions
    \/ EphSolveKepler
    \/ EphNormalizeDeg

SpecEphemeris == InitDriver /\ [][NextEphemeris]_vars

\* --------------------------------------------------- the pointer on the canvas
\* Where the button goes down and comes up: (103, 104) is 5 pixels from
\* (100, 100), (104, 104) more than 5, and the two are 1 pixel apart.
PointerPositions == {Pt(100, 100), Pt(103, 104), Pt(104, 104), Pt(400, 300)}

\* What the ray through the pointer hits first: nothing, or the mesh of a body,
\* named by the name of its entry in clickableMeshes.
NoHit == "none"

\* The square of Math.hypot(b.x - a.x, b.y - a.y).
hypotSquared(a, b) == (b.x - a.x) * (b.x - a.x) + (b.y - a.y) * (b.y - a.y)

\* A test that takes a release exactly 5 pixels away as a drag: d >= 5.
dragDetected_Inclusive(from, to) == hypotSquared(from, to) >= 5 * 5

\* d > 5, for d the distance between the press and the release.
dragDetected(from, to) == hypotSquared(from, to) > 5 * 5

\* clickableMeshes, by the mesh hit: createSun enters { name: 'Sun', radius: 4,
\* color } and createPlanet { name: data.name, radius: data.radius, color }
\* for every entry of PLANETS, the social-link planets too; radius in 1/100.
clickableMeshes ==
    [mesh \in {"Sun"} \cup planetObjects |->
        [name |-> mesh,
         radius |-> IF mesh = "Sun" THEN SunRadius ELSE dataOf(mesh).radius]]

\* info.url, "" for undefined: no entry of clickableMeshes has a url.
urlOf(info) == IF "url" \in DOMAIN info THEN info.url ELSE ""

\* startAmbient(): it returns at once if the ambient sound plays or the sound
\* is muted, and sets ambientPlaying otherwise.
startAmbient == ambientPlaying' = (ambientPlaying \/ ~muted)

\* toggleMute()
toggleMute == muted' = ~muted

\* The sounds a click starts: startAmbient() starts one unless the ambient
\* sound plays or the sound is muted, playClick() and playWhoosh() unless the
\* sound is muted.
soundsOf(called) ==
    (IF ambientPlaying \/ muted THEN <<>> ELSE <<"startAmbient">>)
    \o (IF muted THEN <<>> ELSE called)

\* onCanvasClick(event), hit being the mesh the ray hits first; found tells
\* whether a transition was started.  An entry with a url has it opened and
\* nothing else; any other has focusBodyByName(info.name) called, which finds
\* no planet for 'Sun' and opens the url of a social-link planet, and then
\* fadeNavHint(), which clears navHintVisible.
onCanvasClick(hit, found) ==
    IF _wasDragging
    THEN /\ found = FALSE
         /\ UNCHANGED <<_transition, cameraPosition, controlsTarget, sphericalDelta, panOffset,
                        lockedTarget, panelVisible, closeButton, navHintVisible,
                        ambientPlaying>>
    ELSE IF hit = NoHit \/ urlOf(clickableMeshes[hit]) # ""
    THEN /\ found = FALSE
         /\ startAmbient
         /\ UNCHANGED <<_transition, cameraPosition, controlsTarget, sphericalDelta, panOffset,
                        lockedTarget, panelVisible, closeButton, navHintVisible>>
    ELSE /\ startAmbient
         /\ focusBodyByName(clickableMeshes[hit].name, found)
         /\ navHintVisible' = FALSE

\* The mousedown listener of initDragGuard.
MouseDown ==
    \E p \in PointerPositions :
        /\ down' = p
        /\ _wasDragging' = FALSE
        /\ gesture' = [up |-> Null, afterDrag |-> gesture.afterDrag \/ _wasDragging]
        /\ call' = [op |-> "mousedown", ret |-> FALSE, had |-> _transition # Null,
                    locked |-> NoMesh, args |-> Null, tr |-> _transition,
                    date |-> simDate, at |-> p]
        /\ UNCHANGED <<_transition, cameraPosition, controlsTarget, sphericalDelta, panOffset, now, meshPos, starts,
                       navHintVisible, ambientPlaying, muted>>
        /\ UNCHANGED driverVars
        /\ UNCHANGED ephVars

\* The mouseup listener of initDragGuard.
MouseUp ==
    \E p \in PointerPositions :
        /\ _wasDragging' = dragDetected(down, p)
        /\ UNCHANGED down
        /\ gesture' = [gesture EXCEPT !.up = p]
        /\ call' = [op |-> "mouseup", ret |-> FALSE, had |-> _transition # Null,
                    locked |-> NoMesh, args |-> Null, tr |-> _transition,
                    date |-> simDate, at |-> p]
        /\ UNCHANGED <<_transition, cameraPosition, controlsTarget, sphericalDelta, panOffset, now, meshPos, starts,
                       navHintVisible, ambientPlaying, muted>>
        /\ UNCHANGED driverVars
        /\ UNCHANGED ephVars

\* The click listener of the canvas; the ray hits nothing, the Sun, the Earth
\* or the social-link planet.
CanvasClick ==
    \E hit \in {NoHit, "Sun", "Earth", "GitHub"}, found \in BOOLEAN :
        /\ starts < MaxStarts
        /\ onCanvasClick(hit, found)
        /\ call' = [op |-> "onCanvasClick", ret |-> FALSE, had |-> _transition # Null,
                    locked |-> NoMesh, args |-> Null, tr |-> _transition,
                    date |-> simDate, hit |-> hit,
                    \* the sounds the handler starts, in order
                    sounds |-> IF _wasDragging THEN <<>>
                               ELSE IF hit = NoHit THEN soundsOf(<<>>)
                               ELSE IF urlOf(clickableMeshes[hit]) # ""
                               THEN soundsOf(<<"playClick">>)
                               ELSE soundsOf(<<"playWhoosh">>),
                    \* the url handed to window.open, "" if none is opened:
                    \* info.url, or p.data.url, which focusBodyByName opens
                    \* for a social-link planet
                    opened |-> IF _wasDragging \/ hit = NoHit THEN ""
                               ELSE IF urlOf(clickableMeshes[hit]) # ""
                               THEN urlOf(clickableMeshes[hit])
                               ELSE IF /\ clickableMeshes[hit].name \in planetObjects
                                       /\ isSocialLink(clickableMeshes[hit].name)
                               THEN dataOf(clickableMeshes[hit].name).url
                               ELSE ""]
        /\ starts' = IF found THEN starts + 1 ELSE starts
        /\ UNCHANGED <<now, meshPos, simDate, speedMultiplier, speedMode, rotationY,
                       clockRunning, down, _wasDragging, muted, gesture>>
        /\ UNCHANGED envVars
        /\ UNCHANGED ephVars

\* The click listener of #btn-mute: toggleMute(), then the label of the button.
ClickMute ==
    /\ toggleMute
    /\ call' = [op |-> "clickMute", ret |-> FALSE, had |-> _transition # Null,
                locked |-> NoMesh, args |-> Null, tr |-> _transition, date |-> simDate]
    /\ UNCHANGED <<_transition, cameraPosition, controlsTarget, sphericalDelta, panOffset, now, meshPos, starts,
                   down, _wasDragging, navHintVisible, ambientPlaying, gesture>>
    /\ UNCHANGED driverVars
    /\ UNCHANGED ephVars

\* startAmbient(), which soundManager exports, called by another module.  Of
\* its other exports toggleMute() does what ClickMute does to the state, and
\* playClick(), playWhoosh(), playHover() and isMuted() write nothing of it.
CallStartAmbient ==
    /\ startAmbient
    /\ call' = [op |-> "startAmbient", ret |-> FALSE, had |-> _transition # Null,
                locked |-> NoMesh, args |-> Null, tr |-> _transition, date |-> simDate,
                sounds |-> soundsOf(<<>>)]
    /\ UNCHANGED <<_transition, cameraPosition, controlsTarget, sphericalDelta, panOffset, now, meshPos, starts,
                   down, _wasDragging, navHintVisible, muted, gesture>>
    /\ UNCHANGED driverVars
    /\ UNCHANGED ephVars

NextPointer ==
    \/ MouseDown
    \/ MouseUp
    \/ CanvasClick
    \/ ClickMute
    \/ CallStartAmbient

SpecPointer == InitDriver /\ [][NextPointer]_vars

\* ------------------------------------------------------------------ claims
\* How a step is recognised from the history variables.
IsStartStep == starts' = starts + 1
IsUpdateStep == now' > now
IsCancelStep == call'.op = "cancelTransition" /\ call' # call

\* What the latest updateCamera call did, read off the state it left.
JustUpdated == call.op = "updateCamera"
JustCompleted == JustUpdated /\ call.had /\ _transition = Null

\* C1: the transition slot holds at most one record; smoothCameraTo replaces an
\* in-flight record by one built only from its own arguments, the pose and the
\* clock at the call, no other operation alters a record (it can only clear
\* it), and updateCamera interpolates from the record in the slot alone, before
\* controls.update() runs on the interpolated pose.
C1_LastWriterWins ==
    [][/\ IsStartStep =>
            _transition' = [mesh |-> call'.args.mesh,
                            staticTarget |-> call'.args.staticTarget,
                            zoomDist |-> call'.args.zoomDist,
                            startPos |-> cameraPosition,
                            startTarget |-> controlsTarget,
                            startTime |-> now,
                            duration |-> 1600,
                            explicitEndPos |-> call'.args.explicitEndPos]
       /\ ~IsStartStep => _transition' \in {_transition, Null}
       /\ (IsUpdateStep /\ _transition # Null) =>
            LET tr == _transition
                t == easeInOutQuart(rawProgress(now' - tr.startTime, 1600))
                live == IF tr.mesh # NoMesh THEN meshPos[tr.mesh] ELSE tr.staticTarget
            IN  /\ controlsTarget' = lerpVectors(tr.startTarget, live, t)
                /\ cameraPosition' =
                       controlsUpdate(lerpVectors(tr.startPos, endPosOf(tr, live), t),
                                      controlsTarget', sphericalDelta, panOffset).position
      ]_vars

\* C1 witness: smoothCameraTo has just replaced a transition that an
\* updateCamera call had already moved the camera for.
C1_Witness ==
    /\ call.op = "smoothCameraTo"
    /\ call.had
    /\ call.tr.startPos # _transition.startPos
    /\ call.tr.mesh # _transition.mesh

\* C2: with a live anchor every updateCamera call interpolates the look-target
\* towards the anchor's world position as it is in that call, and the call that
\* completes the transition leaves the look-target at that position.
C2_LiveRetarget ==
    [][(IsUpdateStep /\ _transition # Null /\ _transition.mesh # NoMesh) =>
            LET tr == _transition
                t == easeInOutQuart(rawProgress(now' - tr.startTime, 1600))
            IN  /\ controlsTarget' = lerpVectors(tr.startTarget, meshPos'[tr.mesh], t)
                /\ _transition' = Null => controlsTarget' = meshPos'[tr.mesh]
      ]_vars

\* C3: the updateCamera call at which raw progress reaches 1 leaves the camera
\* at the explicit end position P of the transition.
C3_ExplicitEnd ==
    [][(/\ IsUpdateStep
        /\ _transition # Null
        /\ _transition.explicitEndPos # Null
        /\ now' - _transition.startTime >= 1600)
            => cameraPosition' = _transition.explicitEndPos]_vars

\* C4: cancelTransition clears the slot and leaves camera position and
\* look-target as they are; the updateCamera call after it reports no transition.
C4_CancelKeepsPose ==
    [][/\ IsCancelStep =>
            /\ _transition' = Null
            /\ cameraPosition' = cameraPosition
            /\ controlsTarget' = controlsTarget
       /\ (IsUpdateStep /\ call.op = "cancelTransition") =>
            /\ ~call'.ret
            /\ _transition' = Null
      ]_vars

\* C4 witness: a transition was cancelled part-way, the camera being neither
\* at its start pose nor at its end pose.
C4_Witness ==
    /\ call.op = "cancelTransition"
    /\ call.had
    /\ cameraPosition # call.tr.startPos
    /\ cameraPosition # endPosOf(call.tr, liveTargetOf(call.tr, meshPos))
    /\ controlsTarget # call.tr.startTarget

\* C5: a transition self-terminates.  The wall clock advances from frame to
\* frame, every updateCamera call made 1600 ms or more after the start time
\* clears the record, so no record is in flight 1600 ms after its start, and
\* the controller is idle from then on: the next call reports no transition.
C5_SelfTerminates ==
    /\ [](_transition # Null => now - _transition.startTime < 1600)
    /\ [][IsUpdateStep =>
            /\ (_transition # Null /\ now' - _transition.startTime >= 1600)
                    => (_transition' = Null)
            /\ (call.op = "updateCamera" /\ call.had /\ _transition = Null)
                    => (~call'.ret /\ _transition' = Null)
          ]_vars

\* C5 witness: updateCamera cleared a transition 1600 ms or more after its start.
C5_Witness ==
    /\ JustCompleted
    /\ now - call.tr.startTime >= 1600

\* C6: updateCamera with no transition returns false, creates no transition
\* and leaves the camera position alone.
C6_IdleUpdate ==
    [][(IsUpdateStep /\ _transition = Null) =>
            /\ ~call'.ret
            /\ _transition' = Null
            /\ cameraPosition' = cameraPosition]_vars

\* C6 witness: an idle updateCamera call with a locked anchor moved the look-target.
C6_Witness ==
    /\ JustUpdated
    /\ ~call.had
    /\ call.locked # NoMesh
    /\ controlsTarget # DEFAULT_CAM_TARGET

\* C7: updateCamera returns true exactly when a transition is still in flight
\* as the call returns.
C7_ReturnTellsInFlight ==
    JustUpdated => (call.ret <=> _transition # Null)

\* C8: in every frame the simulated date is advanced first, every planet's
\* orbit pivot is then turned to the ephemeris angle of the advanced date, and
\* the position updateCamera aims the look-target at, in a transition on a live
\* anchor as in idle tracking, is the world position the pivots give after
\* that, not the one of the frame before.
C8_EphemerisBeforeCamera ==
    [][IsUpdateStep =>
            /\ simDate' = advancedDate(simDate, clockDelta(now' - now))
            /\ \A p \in Planets :
                    /\ rotationY'[p] = -getPlanetPosition(p, simDate').angle
                    /\ meshPos'[p] = worldPosition(PLANETS[p].distance, rotationY'[p])
            /\ IF _transition # Null
               THEN _transition.mesh # NoMesh =>
                        controlsTarget' =
                            lerpVectors(_transition.startTarget, meshPos'[_transition.mesh],
                                        easeInOutQuart(rawProgress(now' - _transition.startTime, 1600)))
               ELSE lockedTarget # NoMesh =>
                        controlsTarget' =
                            lerpVectors(controlsTarget, meshPos'[lockedTarget], Frac(8, 100))
      ]_vars

\* C8 witness: a frame advanced the date and completed a transition on the
\* Earth, which that frame's ephemeris moved; the look-target is where the
\* Earth is now, not where the date of the frame before puts it.
C8_Witness ==
    /\ JustCompleted
    /\ call.tr.mesh = "Earth"
    /\ call.date # Null
    /\ call.date # simDate
    /\ meshPos["Earth"] # worldPositions(applyEphemeris(call.date, rotationY))["Earth"]
    /\ controlsTarget = meshPos["Earth"]

\* C9: updateCamera eases the look-target towards the locked anchor's live
\* position by 0.08 of the remaining offset exactly when no transition was
\* active as the call began and a locked anchor is supplied; with a transition
\* the look-target is the transition's interpolation, whatever is locked, and
\* when idle with nothing locked it is left unchanged.
EasedBy8Percent(old, new, wp) ==
    /\ Abs(100 * (new.x - old.x) - 8 * (wp.x - old.x)) <= 50
    /\ Abs(100 * (new.y - old.y) - 8 * (wp.y - old.y)) <= 50
    /\ Abs(100 * (new.z - old.z) - 8 * (wp.z - old.z)) <= 50

C9_IdleTracking ==
    [][IsUpdateStep =>
            IF _transition # Null
            THEN LET tr == _transition
                     live == IF tr.mesh # NoMesh THEN meshPos[tr.mesh] ELSE tr.staticTarget
                     t == easeInOutQuart(rawProgress(now' - tr.startTime, 1600))
                 IN  controlsTarget' = lerpVectors(tr.startTarget, live, t)
            ELSE IF call'.locked # NoMesh
            THEN EasedBy8Percent(controlsTarget, controlsTarget', meshPos[call'.locked])
            ELSE controlsTarget' = controlsTarget
      ]_vars

\* C10: without an explicit end position the end camera position computed in
\* an updateCamera call is liveTarget + normalize(startPos - startTarget) *
\* zoomDist with its height raised to at least 0.3 * zoomDist, and the call
\* that completes the transition leaves the camera no lower than
\* 0.3 * zoomDist.
C10_MinHeight ==
    [][(/\ IsUpdateStep
        /\ _transition # Null
        /\ _transition.explicitEndPos = Null) =>
            LET tr == _transition
                live == IF tr.mesh # NoMesh THEN meshPos[tr.mesh] ELSE tr.staticTarget
                off == normalizeTimes(subVectors(tr.startPos, tr.startTarget), tr.zoomDist)
                endPos == endPosOf(tr, live)
            IN  /\ endPos.x = live.x + off.x
                /\ endPos.z = live.z + off.z
                /\ 10 * endPos.y >= 3 * tr.zoomDist
                /\ endPos.y >= live.y + off.y
                /\ \/ endPos.y = live.y + off.y
                   \/ 10 * endPos.y = 3 * tr.zoomDist
                /\ _transition' = Null => 10 * cameraPosition'.y >= 3 * tr.zoomDist
      ]_vars

\* What the latest ephemeris call was, read off the history it left.
JustGotPosition == ephCall.op = "getPlanetPosition"
JustGotAll == ephCall.op = "getAllPositions"
JustSolved == ephCall.op = "solveKepler"

\* The bodies the ephemeris models: the rows of ELEMENTS, and Pluto.
ModeledBodies == ElementNames \cup {"Pluto"}

\* C11: for every name that is not a modeled body and every date,
\* getPlanetPosition returns exactly { angle: 0, distance: 1 }; no unknown name
\* yields any other result.
C11_UnknownGivesDefault ==
    (JustGotPosition /\ ephCall.name \notin ModeledBodies)
        => ephCall.result = DefaultPosition

\* C12: getPlanetPosition and getAllPositions are pure: a call with the body
\* and the date of an earlier call returns what the earlier call returned,
\* whatever was called in between, and the element tables are after every call
\* what they were when the module was loaded.
C12_Pure ==
    /\ elementTables = [ELEMENTS |-> ELEMENTS, PLUTO_ELEMENTS |-> PLUTO_ELEMENTS]
    /\ ephCall.again =>
          ephCall.result = firstResult[[op |-> ephCall.op, name |-> ephCall.name,
                                        date |-> ephCall.date]]

\* A position is asked for a second time, after positions of other bodies and
\* dates, and all positions of the watched date, were asked for.
C12_Witness ==
    /\ JustGotPosition
    /\ ephCall.again
    /\ \A w \in WatchedArgs : firstResult[w] # NotYet

\* C13 as claimed: for every date getAllPositions returns a mapping with exactly
\* ten entries, one per modeled body, each the value of getPlanetPosition for
\* that body and that date.
C13_TenEntries ==
    JustGotAll =>
        /\ Cardinality(DOMAIN ephCall.result) = 10
        /\ DOMAIN ephCall.result = ModeledBodies
        /\ \A name \in DOMAIN ephCall.result :
              ephCall.result[name] = getPlanetPosition(name, ephCall.date)

\* C13, amended: for every date getAllPositions returns a mapping with exactly
\* nine entries, one per modeled body (the eight planets of ELEMENTS and
\* Pluto), each the value of getPlanetPosition for that body and that date.
C13_NineEntries ==
    JustGotAll =>
        /\ Cardinality(DOMAIN ephCall.result) = 9
        /\ DOMAIN ephCall.result = ModeledBodies
        /\ \A name \in DOMAIN ephCall.result :
              ephCall.result[name] = getPlanetPosition(name, ephCall.date)

\* All positions were asked for the last instant of 2100, and Pluto's is
\* among them and is not the default.
C13_Witness ==
    /\ JustGotAll
    /\ ephCall.date = Date(36889, 43199999)
    /\ "Pluto" \in DOMAIN ephCall.result
    /\ ephCall.result["Pluto"] # DefaultPosition

\* C14: for eccentricity 0 and every mean anomaly M, solveKepler returns E
\* equal to M, and its loop ends after the first iteration, whose correction
\* is zero.
C14_CircularOrbit ==
    (JustSolved /\ ephCall.e = Zero) =>
        /\ ephCall.result = ephCall.M
        /\ ephCall.run.iterations = 1
        /\ ephCall.run.dE = Zero

\* Kepler's equation was solved for a circular orbit at M = -47.11 degrees.
C14_Witness ==
    /\ JustSolved
    /\ ephCall.e = Zero
    /\ ephCall.M = Hundredths(-4711)
    /\ ephCall.result = Hundredths(-4711)

\* The six values a row of the tables gives for J2000.0.
Tabulated(el) ==
    [a |-> el[1], e |-> el[3], I |-> el[5], L |-> el[7], wBar |-> el[9], Omega |-> el[11]]

\* C15: at 2000-01-01T12:00:00Z the Julian-century offset T is 0, and for every
\* modeled body each of the six extrapolated elements a, e, I, L, wBar, Omega
\* is its tabulated J2000 value.
C15_EpochElements ==
    (JustGotPosition /\ ephCall.name \in ModeledBodies /\ ephCall.date = Date(0, 0)) =>
        /\ ephCall.T = 0
        /\ ephCall.at = Tabulated(IF ephCall.name = "Pluto" THEN PLUTO_ELEMENTS
                                   ELSE ELEMENTS[ephCall.name])

\* Mercury's position was asked for J2000.0.
C15_Witness ==
    /\ JustGotPosition
    /\ ephCall.name = "Mercury"
    /\ ephCall.date = Date(0, 0)
    /\ ephCall.at.L = 25225

\* Whether a date is from 1900-01-01T00:00:00.000Z to 2100-12-31T23:59:59.999Z.
From1900To2100(date) ==
    /\ date.day > -36525 \/ (date.day = -36525 /\ date.ms >= 43200000)
    /\ date.day < 36889 \/ (date.day = 36889 /\ date.ms <= 43199999)

\* C16: for every modeled body and every date from 1900 to 2100 the
\* extrapolated elements satisfy a > 0 and 0 <= e < 1 (a in 10^-7 AU, e in
\* 10^-8), and so do the values the solver and the square root are given
\* (e in 10^-4).
C16_ElementsInDomain ==
    (JustGotPosition /\ ephCall.name \in ModeledBodies /\ From1900To2100(ephCall.date)) =>
        /\ ephCall.at.a > 0
        /\ ephCall.at.e >= 0
        /\ ephCall.at.e < 100000000
        /\ RoundDiv(ephCall.at.e, 10000) < 10000

\* Saturn's position was asked for the last instant of 2100, when its
\* eccentricity is below the tabulated one.
C16_Witness ==
    /\ JustGotPosition
    /\ ephCall.name = "Saturn"
    /\ ephCall.date = Date(36889, 43199999)
    /\ ephCall.at.e < ELEMENTS["Saturn"][3]
    /\ ephCall.at.e > 0

\* C17: Pluto is computed from fixed elements: the semi-major axis, the
\* eccentricity, the inclination, the longitude of perihelion and the
\* longitude of the ascending node getPlanetPosition uses for it are the same
\* for every date, those of PLUTO_ELEMENTS.
C17_PlutoFixed ==
    (JustGotPosition /\ ephCall.name = "Pluto") =>
        /\ ephCall.at.a = PLUTO_ELEMENTS[1]
        /\ ephCall.at.e = PLUTO_ELEMENTS[3]
        /\ ephCall.at.I = PLUTO_ELEMENTS[5]
        /\ ephCall.at.wBar = PLUTO_ELEMENTS[9]
        /\ ephCall.at.Omega = PLUTO_ELEMENTS[11]

\* The ecliptic y of a body at a date, as getPlanetPosition computes it.
yEclOf(name, date) ==
    LET at == elementsAt(elementsOf(elementTables, name), dateToCenturies(date))
    IN  eclipticFrom(at, eccentricAnomaly(at)).yEcl

Residual(M, e, E) == Minus(Minus(E, Times(eStarOf(e), SinCos(E).sin)), M)

\* C19: for every eccentricity from 0 to 0.9 and every mean anomaly M the E
\* solveKepler returns satisfies E - eStar * sin(E) = M within 1e-6 degree.
C19_KeplerRoundTrip ==
    (JustSolved /\ ~IsNaN(ephCall.e) /\ ~Less(TenThousandths(9000), ephCall.e)) =>
        Less(Magnitude(Residual(ephCall.M, ephCall.e, ephCall.result)), Fix(0, 1000000))

\* Kepler's equation was solved for e = 0.9 at M = 30 degrees, where E is
\* 80.92 degrees, in more than one iteration.
C19_Witness ==
    /\ JustSolved
    /\ ephCall.e = TenThousandths(9000)
    /\ ephCall.M = Hundredths(3000)
    /\ ephCall.run.iterations > 1
    /\ InHundredths(ephCall.result) = 8092

\* The milliseconds from date d1 to date d2.
MsBetween(d1, d2) == (d2.day - d1.day) * 86400000 + (d2.ms - d1.ms)

\* C20: the driver advances the simulated date exactly once per frame, by
\* delta * speedMultiplier * 2 days in artistic mode and by delta seconds in
\* real-time mode, and at no other step; so with multiplier 0 in artistic mode
\* a frame leaves the date as it is, and the date never moves backwards.
\* delta is in 1/10 ms, of which a day has 864000000.
C20_DateAdvance ==
    [][/\ IsUpdateStep =>
            /\ speedMode = "realtime" =>
                    10 * MsBetween(simDate, simDate') = call'.delta
            /\ speedMode = "artistic" =>
                    MsBetween(simDate, simDate') = call'.delta * speedMultiplier * 17280
            /\ (speedMode = "artistic" /\ speedMultiplier = 0) => simDate' = simDate
       /\ ~IsUpdateStep => simDate' = simDate
       /\ MsBetween(simDate, simDate') >= 0
      ]_vars

\* The step was a call normalizeDeg(deg).
JustNormalized == ephCall.op = "normalizeDeg"

\* C21 as stated: normalizeDeg returns a value congruent to its input modulo
\* 360 degrees in the half-open range (-180, 180], never -180.
C21_HalfOpenRange ==
    JustNormalized =>
        /\ (ephCall.result - ephCall.deg) % 36000 = 0
        /\ ephCall.result > -18000
        /\ ephCall.result <= 18000

\* C21 amended: normalizeDeg returns a value congruent to its input modulo
\* 360 degrees in the closed range [-180, 180]; an input that is a negative
\* odd multiple of 180 comes back as -180.
C21_ClosedRange ==
    JustNormalized =>
        /\ (ephCall.result - ephCall.deg) % 36000 = 0
        /\ ephCall.result >= -18000
        /\ ephCall.result <= 18000
        /\ (ephCall.deg < 0 /\ ephCall.deg % 36000 = 18000 => ephCall.result = -18000)

C21_Witness ==
    /\ JustNormalized
    /\ ephCall.deg = -54000
    /\ ephCall.result = -18000

RECURSIVE SumOf(_)
SumOf(seq) == IF seq = <<>> THEN Zero ELSE Plus(seq[1], SumOf(Tail(seq)))

\* Math.abs(dE) < 1e-7
BelowTolerance(dE) == Less(Magnitude(dE), Tolerance)

\* C22: solveKepler makes at least one and at most 20 iterations; no iteration
\* before the last has a correction below the tolerance of 1e-7 degree; it
\* stops short of 20 only on a correction below the tolerance; and the value
\* returned is the last iterate, the first guess plus every correction made,
\* the last one included, whether the run converged or reached the cap.
C22_KeplerTerminates ==
    JustSolved =>
        LET run == ephCall.run
        IN  /\ run.iterations >= 1
            /\ run.iterations <= 20
            /\ Len(run.dEs) = run.iterations
            /\ \A k \in 1..(run.iterations - 1) : ~BelowTolerance(run.dEs[k])
            /\ (run.iterations < 20 => BelowTolerance(run.dEs[run.iterations]))
            /\ ephCall.result = Plus(ephCall.E0, SumOf(run.dEs))

\* A run that reaches the cap without converging: the one on NaN, which is
\* what getPlanetPosition hands over for a name whose elements are undefined.
C22_Witness ==
    /\ JustSolved
    /\ ephCall.run.iterations = 20
    /\ ~BelowTolerance(ephCall.run.dEs[20])
    /\ ephCall.result = NaN

\* A run that stops early, after 6 iterations: M = 30 degrees, e = 0.9.
C22_WitnessEarly ==
    /\ JustSolved
    /\ ephCall.run.iterations = 6
    /\ BelowTolerance(ephCall.run.dEs[6])
    /\ ~BelowTolerance(ephCall.run.dEs[5])

\* Elapsed times, in ms, at which the progress of a transition is compared:
\* its start, its middle, its end and two beyond the end.
ProgressPoints == {0, 200, 400, 600, 800, 1000, 1200, 1400, 1600, 1800, 2000}

LeqFrac(a, b) == a.num * b.den <= b.num * a.den
EqFrac(a, b) == a.num * b.den = b.num * a.den
Between(v, a, b) == Min(a, b) <= v /\ v <= Max(a, b)
WithinBox(p, a, b) ==
    /\ Between(p.x, a.x, b.x)
    /\ Between(p.y, a.y, b.y)
    /\ Between(p.z, a.z, b.z)

\* C23: in every updateCamera call made during a transition the raw progress
\* is at most 1; over the duration of that transition the ease maps 0 to 0,
\* one half to one half by either branch and 1 to 1, stays within [0, 1] and
\* does not decrease from one 200 ms point of the elapsed time to the next; and
\* the call leaves the camera position between the start position and the end
\* position, and the look-target between the start target and the live target.
C23_NoOvershoot ==
    [][(IsUpdateStep /\ _transition # Null) =>
         LET tr == _transition
             rawT == rawProgress(now' - tr.startTime, tr.duration)
             ease(elapsed) == easeInOutQuart(rawProgress(elapsed, tr.duration))
             eased == [e \in 0..(MaxTime + 200) |->
                         IF e % 200 = 0 THEN ease(e) ELSE Frac(0, 1)]
             live == liveTargetOf(tr, meshPos)
         IN  /\ LeqFrac(rawT, Frac(1, 1))
             /\ EqFrac(ease(0), Frac(0, 1))
             /\ EqFrac(easeFirstHalf(Frac(1, 2)), Frac(1, 2))
             /\ EqFrac(easeSecondHalf(Frac(1, 2)), Frac(1, 2))
             /\ EqFrac(ease(tr.duration), Frac(1, 1))
             /\ \A e \in ProgressPoints \cup {now' - tr.startTime} :
                    /\ LeqFrac(Frac(0, 1), eased[e])
                    /\ LeqFrac(eased[e], Frac(1, 1))
                    /\ LeqFrac(eased[e], eased[e + 200])
             /\ WithinBox(cameraPosition', tr.startPos, endPosOf(tr, live))
             /\ WithinBox(controlsTarget', tr.startTarget, live)
      ]_vars

\* C24: at both places where the driver calls applyEphemeris, init() and every
\* frame of animate(), each planet that is no social-link planet and has an
\* entry in the ephemeris result is left with its orbit pivot at minus the
\* engine's angle for the date passed, which is the simulated date, and so it
\* stays until the next frame; the pivot of a social-link planet is not
\* written: after init() it holds the planet's startAngle, and a frame changes
\* it by the constant orbit step of that frame alone.
C24_NegatedAngle ==
    /\ [](\A p \in planetObjects \cap ModeledBodies :
             ~isSocialLink(p) =>
                 rotationY[p] = -getPlanetPosition(p, simDate).angle)
    /\ \A p \in planetObjects :
           isSocialLink(p) => rotationY[p] = dataOf(p).startAngle
    /\ [][\A p \in planetObjects :
             isSocialLink(p) =>
                 rotationY'[p] - rotationY[p] =
                     IF IsUpdateStep
                     THEN RoundDiv(216 * clockDelta(now' - now), dataOf(p).orbitalPeriod)
                     ELSE 0
       ]_vars

\* C24 witness: a frame has advanced the date; the Earth's pivot is at minus
\* the Earth's angle for the new date, and the social-link planet's pivot has
\* moved on from its startAngle by its own orbit step.
C24_Witness ==
    /\ JustUpdated
    /\ call.date # Null
    /\ simDate # call.date
    /\ rotationY["Earth"] = -getPlanetPosition("Earth", simDate).angle
    /\ rotationY["Earth"] # -getPlanetPosition("Earth", call.date).angle
    /\ rotationY["GitHub"] > dataOf("GitHub").startAngle

\* C25: smoothCameraTo stores a record with duration 1600 ms and the clock of
\* the call as start time, and until 1600 ms have passed since then only
\* cancelTransition or another smoothCameraTo takes the record out of the slot:
\* an updateCamera call made earlier than that leaves the very record in flight.
C25_NeverFinishedEarly ==
    [][/\ IsStartStep =>
            /\ _transition'.duration = 1600
            /\ _transition'.startTime = now'
       /\ (/\ _transition # Null
           /\ now' - _transition.startTime < 1600
           /\ ~IsStartStep
           /\ ~IsCancelStep) => _transition' = _transition
      ]_vars

\* C25 witness: an updateCamera call 1200 ms after the start has left the
\* record it found in the slot.
C25_Witness ==
    /\ JustUpdated
    /\ call.had
    /\ _transition = call.tr
    /\ _transition.duration = 1600
    /\ now - _transition.startTime = 1200

\* The values smoothCameraTo captured in a record.
Captured(tr) ==
    <<tr.startPos, tr.startTarget, tr.staticTarget, tr.explicitEndPos,
      tr.zoomDist, tr.startTime, tr.duration>>

\* C26: the seven values smoothCameraTo captured stay as they are for as long
\* as the record is in the slot, whatever moves the camera, the look-target or
\* the anchor the static target was sampled from; and an updateCamera call
\* writes nothing but the camera position, the look-target and the slot.
C26_CapturedValuesKept ==
    [][/\ (_transition # Null /\ _transition' # Null /\ ~IsStartStep) =>
            Captured(_transition') = Captured(_transition)
       /\ IsUpdateStep =>
            /\ meshPos' = meshPos
            /\ starts' = starts
            /\ UNCHANGED driverVars
            /\ UNCHANGED ephVars
      ]_vars

\* C26 witness: a transition on the Earth is in flight after an updateCamera
\* call; the camera has left the start position, the look-target the start
\* target, and the Earth the position that was passed as static target.
C26_Witness ==
    /\ JustUpdated
    /\ call.had
    /\ _transition # Null
    /\ _transition.mesh = "Earth"
    /\ cameraPosition # _transition.startPos
    /\ controlsTarget # _transition.startTarget
    /\ meshPos["Earth"] # _transition.staticTarget

\* The step was resetCamera().
IsResetStep == IsStartStep /\ call'.args = [name |-> "reset"]

\* C27: whenever a transition is in flight and the driver's locked target is
\* not null, the locked target is the mesh the transition follows; a reset
\* leaves the locked target null and a transition without a mesh; and when a
\* frame completes a transition the locked target, which idle tracking eases
\* towards from then on, is null or the mesh that transition followed.
C27_LockMatchesAnchor ==
    /\ []((_transition # Null /\ lockedTarget # NoMesh) => lockedTarget = _transition.mesh)
    /\ [][IsResetStep =>
             (lockedTarget' = NoMesh /\ _transition' # Null /\ _transition'.mesh = NoMesh)
       ]_vars
    /\ [][(IsUpdateStep /\ _transition # Null /\ _transition' = Null) =>
             lockedTarget' \in {NoMesh, _transition.mesh}
       ]_vars

\* C27 witness: a focus on the Earth has replaced a transition that was flying
\* to the Sun; the locked target and the new transition's mesh are the Earth.
C27_Witness ==
    /\ call.op = "smoothCameraTo"
    /\ call.had
    /\ call.tr.mesh = "Sun"
    /\ _transition # Null
    /\ _transition.mesh = "Earth"
    /\ lockedTarget = "Earth"

\* The names of FocusNames that are a social-link planet with a url, or no body.
NoCameraNames ==
    {name \in FocusNames :
        \/ name \in planetObjects /\ isSocialLink(name) /\ dataOf(name).url # ""
        \/ name \notin planetObjects \cup {"Abhay Sharma"}}

\* C28: a focus request for a social-link planet with a url, or for a name
\* that matches no body, starts no transition, leaves the transition slot, the
\* camera, the look-target and the locked target as they are, and only the
\* request for the social-link planet opens a url.
C28_NoCameraChange ==
    [][\A name \in NoCameraNames :
          (call' # call /\ call'.args = [name |-> name]) =>
              /\ _transition' = _transition
              /\ cameraPosition' = cameraPosition
              /\ controlsTarget' = controlsTarget
              /\ lockedTarget' = lockedTarget
              /\ starts' = starts
              /\ (call'.opened # "" <=> name \in SocialLinks)
      ]_vars

\* C28 witness: a focus request for the social-link planet came while a
\* transition to the Earth was in flight with the Earth locked, and both are
\* as they were.
C28_Witness ==
    /\ call.op = "focusBodyByName"
    /\ call.args = [name |-> "GitHub"]
    /\ call.had
    /\ _transition = call.tr
    /\ _transition.mesh = "Earth"
    /\ lockedTarget = "Earth"
    /\ now > _transition.startTime

C28_WitnessUnknown ==
    /\ call.op = "focusBodyByName"
    /\ call.args = [name |-> "Ceres"]
    /\ call.had
    /\ _transition = call.tr
    /\ lockedTarget = "Sun"

\* C29: under any sequence of clicks on the speed buttons and the real-time
\* button, with frames in between, the mode is 'realtime' only while the
\* multiplier is 1; a click on a speed button leaves the mode 'artistic' and
\* the multiplier that button's; and a frame writes 'Paused' to the clock
\* only when the mode is 'artistic' and the multiplier 0, never in real-time
\* mode; on a page that has the clock it writes 'Paused' whenever the mode is
\* 'artistic' and the multiplier 0, and in real-time mode the date with the
\* real-time mark.
C29_ModeAndMultiplier ==
    /\ [](speedMode = "realtime" => speedMultiplier = 1)
    /\ [][(call' # call /\ call'.op = "clickSpeed") =>
             (speedMode' = "artistic" /\ speedMultiplier' = call'.speed)
       ]_vars
    /\ [][IsUpdateStep =>
             /\ call'.clock.text = "Paused" =>
                    (speedMode = "artistic" /\ speedMultiplier = 0)
             /\ speedMode = "realtime" => call'.clock.text # "Paused"
             /\ (hasSimTime /\ speedMode = "artistic" /\ speedMultiplier = 0) =>
                    call'.clock.text = "Paused"
             /\ (hasSimTime /\ speedMode = "realtime") =>
                    (call'.clock.text = "date" /\ call'.clock.suffix = "Real-time")
       ]_vars

\* C29 witness: Pause was clicked and a frame after the first, which alone
\* leaves the date for any multiplier, has left the date where it was; then
\* the real-time button was clicked, and the multiplier is 1 again.
C29_Witness ==
    /\ call.op = "clickRealtime"
    /\ call.date = StartDate
    /\ now > 800
    /\ speedMode = "realtime"
    /\ speedMultiplier = 1

C29_WitnessPaused ==
    /\ JustUpdated
    /\ call.clock.text = "Paused"
    /\ speedMultiplier = 0

\* The step was a click on the canvas.
IsCanvasClick == call'.op = "onCanvasClick" /\ call' # call

\* The button came up since it last went down, and how far from there.
Released == gesture.up # Null
ReleasedFar == Released /\ hypotSquared(down, gesture.up) > 5 * 5
ReleasedNear == Released /\ hypotSquared(down, gesture.up) <= 5 * 5

\* C30: a click on the canvas after a release more than 5 pixels from the
\* press starts no sound, opens no url, starts no transition and leaves the
\* camera, the lock, the panel, the hint and the ambient sound as they are;
\* every mousedown clears the drag flag; and a click after a release within 5
\* pixels of the press is processed, whatever came before: unless the sound is
\* muted the ambient sound plays from then on, and a hit on a body plays the
\* whoosh unless muted and clears the hint; a hit on the Earth focuses it, with
\* the lock on its mesh, a hit on a social-link planet has its url opened, a
\* hit on the Sun, which is registered as 'Sun', finds no body to focus, and a
\* click on nothing changes neither the lock nor the hint.
C30_DragSuppressesClick ==
    /\ [][(IsCanvasClick /\ ReleasedFar) =>
             /\ call'.sounds = <<>>
             /\ call'.opened = ""
             /\ starts' = starts
             /\ UNCHANGED <<_transition, cameraPosition, controlsTarget, lockedTarget,
                            panelVisible, closeButton, navHintVisible, ambientPlaying>>
       ]_vars
    /\ [][(call'.op = "mousedown" /\ call' # call) => ~_wasDragging']_vars
    /\ [][(IsCanvasClick /\ ReleasedNear) =>
             /\ muted => (call'.sounds = <<>> /\ ambientPlaying' = ambientPlaying)
             /\ ~muted => ambientPlaying'
             /\ (~muted /\ ~ambientPlaying) =>
                    (call'.sounds # <<>> /\ call'.sounds[1] = "startAmbient")
             /\ (~muted /\ call'.hit # NoHit) =>
                    call'.sounds[Len(call'.sounds)] = "playWhoosh"
             /\ call'.hit # NoHit => ~navHintVisible'
             /\ call'.hit = "Earth" =>
                    /\ starts' = starts + 1
                    /\ _transition' # Null
                    /\ lockedTarget' = _transition'.mesh
                    /\ lockedTarget' = "Earth"
                    /\ call'.opened = ""
             /\ call'.hit \in SocialLinks =>
                    /\ call'.opened = SocialLinkData[call'.hit].url
                    /\ starts' = starts
                    /\ UNCHANGED <<_transition, lockedTarget, panelVisible>>
             /\ call'.hit = "Sun" =>
                    /\ call'.opened = ""
                    /\ starts' = starts
                    /\ UNCHANGED <<_transition, lockedTarget, panelVisible>>
             /\ call'.hit = NoHit =>
                    /\ call'.opened = ""
                    /\ starts' = starts
                    /\ UNCHANGED <<_transition, lockedTarget, panelVisible, navHintVisible>>
       ]_vars

\* C30 witness: the button was released more than 5 pixels from where it went
\* down, and the click on the Earth that followed did nothing.
C30_Witness ==
    /\ call.op = "onCanvasClick"
    /\ call.hit = "Earth"
    /\ call.sounds = <<>>
    /\ ReleasedFar
    /\ _wasDragging
    /\ lockedTarget = NoMesh
    /\ ~ambientPlaying

\* After a drag, a press and a release 5 pixels apart were followed by a click
\* on the Earth, which is focused.
C30_WitnessAfterDrag ==
    /\ call.op = "onCanvasClick"
    /\ call.hit = "Earth"
    /\ gesture.afterDrag
    /\ Released
    /\ hypotSquared(down, gesture.up) = 5 * 5
    /\ ~_wasDragging
    /\ lockedTarget = "Earth"
    /\ ~navHintVisible

====
